---- MODULE Spec2Model ----
(***************************************************************************)
(* Model of the northstar workout-plan client: the remote tables           *)
(* (workout_plans, plan_day_exercises), the on-device draft store          *)
(* (AsyncStorage) and the screens that author, save and activate plans.    *)
(* One screen is focused at a time; a handler that awaits a remote call is *)
(* a sequence of steps (pc), and every remote call may return an error.    *)
(* The state updates a handler makes between two awaits are rendered as    *)
(* one batch, and the operations of the draft store are atomic; a write   *)
(* whose failure is only logged fails in the specification SpecWrites.     *)
(***************************************************************************)
EXTENDS Integers, Sequences, FiniteSets, TLC

(* ------------------------------ bounds --------------------------------- *)
\* days of a plan/week shown by the authoring screens (7 in the app)
NumDays == 2
\* exercises the user adds to one day
MaxExPerDay == 1
\* plans the user creates
MaxPlans == 2
\* plans the user creates where weeks are authored too
MaxSavePlans == 1
\* rows of plan_day_exercises the remote table holds
MaxRows == 2
\* exercises one search returns (limit(10) in the app)
SearchLimit == 2
\* searches in flight at one time
MaxSearches == 2

(* ------------------------------ values --------------------------------- *)
NULL == -1

\* text is a sequence of characters; " " is the only whitespace typed
PlanNameInputs == { <<>>, <<" ">>, <<"S", " ">> }
DayNameInputs == { <<" ">>, <<"A", " ">> }

\* day indices: the new-plan screen maps [0..6], the week screen maps [1..7]
NewPlanDays == 0 .. (NumDays - 1)
WeekDays == 1 .. NumDays

\* the week the week screens are opened on
weekNumber == 1

\* what the exercise picker hands to the draft: a catalog exercise and the
\* validated sets / reps / rest (exercise ids are numbered)
ExerciseInputs ==
  { [id |-> 1, name |-> "Bench Press", sets |-> 3, reps |-> 10, rest_seconds |-> 60] }

\* a second catalog exercise, to tell lists of one length apart
DiffExercises ==
  ExerciseInputs \cup
    { [id |-> 2, name |-> "Squat", sets |-> 5, reps |-> 5, rest_seconds |-> 90] }

\* the table exercises of the account when the app starts
Catalog ==
  << [id |-> 2, name |-> <<"B", "a", "c", "k", " ", "S", "q", "u", "a", "t">>],
     [id |-> 1, name |-> <<"B", "e", "n", "c", "h", " ", "P", "r", "e", "s", "s">>],
     [id |-> 3, name |-> <<"B", "e", "n", "t", " ", "R", "o", "w">>] >>

RECURSIVE TrimStart(_)
TrimStart(s) == IF s # <<>> /\ Head(s) = " " THEN TrimStart(Tail(s)) ELSE s

RECURSIVE TrimEnd(_)
TrimEnd(s) ==
  IF s # <<>> /\ s[Len(s)] = " " THEN TrimEnd(SubSeq(s, 1, Len(s) - 1)) ELSE s

\* String.prototype.trim
Trim(s) == TrimEnd(TrimStart(s))

(* ---------------------- JavaScript objects as maps --------------------- *)
\* an object with numeric keys is a function on its set of keys
EmptyMap == <<>>

\* { ...m, [k]: v }
Put(m, k, v) == [x \in (DOMAIN m) \cup {k} |-> IF x = k THEN v ELSE m[x]]

\* m[k] || []
ListAt(m, k) == IF k \in DOMAIN m THEN m[k] ELSE <<>>

\* m[k]?.trim() is truthy
HasName(m, k) == k \in DOMAIN m /\ Trim(m[k]) # <<>>

\* m[k]?.length is truthy
HasExercises(m, k) == k \in DOMAIN m /\ Len(m[k]) > 0

RECURSIVE Entries(_, _)
Entries(m, ks) ==
  IF ks = {} THEN <<>>
  ELSE LET k == CHOOSE x \in ks : \A y \in ks : x <= y
       IN  << <<k, m[k]>> >> \o Entries(m, ks \ {k})

\* JSON.stringify of an object: its entries, integer keys ascending
JSONstringify(m) == Entries(m, DOMAIN m)

\* JSON.parse of such a text
JSONparse(s) ==
  [k \in {s[i][1] : i \in DOMAIN s} |->
      s[CHOOSE i \in DOMAIN s : s[i][1] = k][2]]

\* AsyncStorage.getItem gives null for a missing key: a value is <<>> when
\* missing and <<text>> when present
None == <<>>
Some(v) == <<v>>

(* ------------------------------ state ---------------------------------- *)
VARIABLES
  plans,                \* table workout_plans, in creation order
  rows,                 \* table plan_day_exercises, in creation order
  AsyncStorage,         \* the draft store
  screen,               \* the focused screen
  planId,               \* route parameter: the plan of the focused screen
  isEditMode,           \* route parameter mode=edit
  name,                 \* NewPlanScreen: plan name
  dayNames,             \* authoring screen: day -> name
  dayExercises,         \* authoring screen: day -> exercises
  initialDayNames,      \* WeekConfigScreen: snapshot of dayNames
  initialDayExercises,  \* WeekConfigScreen: snapshot of dayExercises
  pending,              \* WeekConfigScreen: loads started and not yet settled
  addExerciseDay,       \* AddExerciseScreen: route parameter day
  saving,               \* authoring screen: a save is in flight
  plan,                 \* view screens: the plan row as last fetched
  weeks,                \* ViewPlanScreen: the week numbers as last fetched
  loading,              \* the focused screen is fetching
  pc,                   \* position of the running handler
  shouldBeCurrent,      \* handleSavePlan: no current plan was found
  firstDay,             \* handleChangePlan: daysData[0].day_name
  targetDay,            \* handleChangePlan: targetDay[0].id
  alert,                \* the modal alert shown, if any
  searchQuery,          \* AddExerciseScreen: the text of the search input
  foundExercises,       \* AddExerciseScreen: exercises, the displayed search results
  debounceTimeout,      \* AddExerciseScreen: the pending timeout's query, if any
  searching,            \* AddExerciseScreen: the searches in flight
  sets,                 \* AddExerciseScreen: the text of the sets field
  reps,                 \* AddExerciseScreen: the text of the reps field
  restSeconds,          \* AddExerciseScreen: the text of the rest field
  catalog,              \* remote table exercises, in order of creation
  exerciseName,         \* NewExercise: the text of the name field
  error,                \* NewExercise: the error shown under the form, if any
  weekDays,             \* WeekViewScreen: days, the list as last loaded
  weekReady,            \* WeekViewScreen: ready
  viewDayName,          \* week DayDetailScreen: route parameter day
  dayViewExercises,     \* week DayDetailScreen: exercises, the list as last loaded
  dayReady,             \* week DayDetailScreen: ready
  reloads               \* the loadData calls of the two screens that have not returned

vars ==
  << plans, rows, AsyncStorage, screen, planId, isEditMode, name, dayNames,
     dayExercises, initialDayNames, initialDayExercises, pending, addExerciseDay,
     saving, plan, weeks, loading, pc, shouldBeCurrent, firstDay, targetDay,
     alert, searchQuery, foundExercises, debounceTimeout, searching, sets, reps,
     restSeconds, catalog, exerciseName, error, weekDays, weekReady,
     viewDayName, dayViewExercises, dayReady, reloads >>

Fields == << sets, reps, restSeconds >>

\* the fields of the week's add-exercise screen as constructed:
\* useState(''), three times; also their value while no such screen is mounted
InitFields ==
  /\ sets = <<>>
  /\ reps = <<>>
  /\ restSeconds = <<>>

\* the add-exercise screen is unmounted
ResetFields ==
  /\ sets' = <<>>
  /\ reps' = <<>>
  /\ restSeconds' = <<>>

\* the exercise library and the NewExercise form
Library == << catalog, exerciseName, error >>

\* the library and the form of NewExercise when the app starts
InitLibrary ==
  /\ catalog = Catalog
  /\ exerciseName = <<>>
  /\ error = None

\* the week's read-only screens: WeekViewScreen and its DayDetailScreen
Reload == << weekDays, weekReady, viewDayName, dayViewExercises, dayReady, reloads >>

\* neither screen is mounted
InitReload ==
  /\ weekDays = <<>>
  /\ weekReady = FALSE
  /\ viewDayName = <<>>
  /\ dayViewExercises = <<>>
  /\ dayReady = FALSE
  /\ reloads = {}

\* what the handlers of the plan screens leave alone
Search ==
  << searchQuery, foundExercises, debounceTimeout, searching, Fields, Library,
     Reload >>

\* the search state of an AddExerciseScreen as constructed (useState)
FreshSearch ==
  /\ searchQuery = <<>>
  /\ foundExercises = <<>>
  /\ debounceTimeout = None
  /\ searching = {}
  /\ InitFields
  /\ InitLibrary
  /\ InitReload

NoAlert == "none"
NoPlan == 0
NoRow == 0
NoDay == -1

PlanIds == 1 .. MaxPlans

PlanRow(n, c) == [name |-> n, is_current |-> c]

\* a row of plan_day_exercises; the position in rows orders by created_at
Row(p, w, d, dn, ex, s, r, rs) ==
  [ plan_id |-> p, week_number |-> w, day_order |-> d, day_name |-> dn,
    exercise_id |-> ex, sets |-> s, reps |-> r, rest_seconds |-> rs,
    is_current |-> FALSE ]

StoreInit ==
  [ newPlanFormData |-> None,
    DayNames |-> [p \in PlanIds |-> None],
    Exercises |-> [p \in PlanIds |-> None] ]

Init ==
  /\ plans = <<>>
  /\ rows = <<>>
  /\ AsyncStorage = StoreInit
  /\ screen = "plans"
  /\ planId = NoPlan
  /\ isEditMode = FALSE
  /\ name = <<>>
  /\ dayNames = EmptyMap
  /\ dayExercises = EmptyMap
  /\ initialDayNames = EmptyMap
  /\ initialDayExercises = EmptyMap
  /\ pending = {}
  /\ addExerciseDay = NoDay
  /\ saving = FALSE
  /\ plan = None
  /\ weeks = {}
  /\ loading = FALSE
  /\ pc = "idle"
  /\ shouldBeCurrent = FALSE
  /\ firstDay = <<>>
  /\ targetDay = NoRow
  /\ alert = NoAlert
  /\ FreshSearch

\* the user can press something: no modal alert, no handler awaiting
Idle == pc = "idle" /\ alert = NoAlert

\* the component state of an authoring screen as constructed (useState)
FreshForm ==
  /\ name' = <<>>
  /\ dayNames' = EmptyMap
  /\ dayExercises' = EmptyMap
  /\ saving' = FALSE

Locals == << shouldBeCurrent, firstDay, targetDay >>
Remote == << plans, rows >>
Route == << screen, planId, isEditMode >>
Form == << name, dayNames, dayExercises, saving >>
Week == << initialDayNames, initialDayExercises, pending, addExerciseDay >>
View == << plan, weeks, loading >>

\* the button of an alert that only closes it ("OK", "Cancel")
DismissAlert ==
  /\ alert \notin {NoAlert, "Plan updated successfully", "Exercise added to plan"}
  /\ alert' = NoAlert
  /\ UNCHANGED << Week, Remote, AsyncStorage, Route, Form, View, pc, Locals >>
  /\ UNCHANGED Search

\* the rows of plan p, as positions in rows
RowsOf(p) == { i \in DOMAIN rows : rows[i].plan_id = p }

\* day.week_number || 1
WeekOf(r) == IF r.week_number = NULL THEN 1 ELSE r.week_number

\* order('day_order', { ascending: true }).limit(1): a row of p with the
\* least day_order (the order among equal day_orders is the server's)
FirstDayRows(p) ==
  { i \in RowsOf(p) : \A j \in RowsOf(p) : rows[i].day_order <= rows[j].day_order }

\* a mounted view screen with its fetch started
MountView(p, edit) ==
  /\ screen' = "view" /\ planId' = p /\ isEditMode' = edit
  /\ plan' = None /\ weeks' = {} /\ loading' = TRUE

(* --------------------------- PlansScreen ------------------------------- *)
\* the "+" button: router.push('/plans/new'); NewPlanScreen mounts and
\* loadSavedData restores the stored form, if any
OpenNewPlan ==
  /\ screen = "plans" /\ Idle
  /\ screen' = "new"
  /\ LET savedData == AsyncStorage.newPlanFormData
     IN  IF savedData # None
         THEN /\ name' = savedData[1].name
              /\ dayExercises' = JSONparse(savedData[1].dayExercises)
              /\ dayNames' = JSONparse(savedData[1].dayNames)
              /\ saving' = FALSE
         ELSE FreshForm
  /\ UNCHANGED << Week, Remote, AsyncStorage, planId, isEditMode, View, pc, Locals, alert >>
  /\ UNCHANGED Search

\* a plan card: router.push(`/plans/view/${item.id}`); ViewPlanScreen mounts
\* and starts fetchPlanDetails
OpenPlan(p) ==
  /\ screen = "plans" /\ Idle
  /\ p \in 1 .. Len(plans)
  /\ screen' = "view" /\ planId' = p /\ isEditMode' = FALSE
  /\ plan' = None /\ weeks' = {} /\ loading' = TRUE
  /\ UNCHANGED << Week, Remote, AsyncStorage, Form, pc, Locals, alert >>
  /\ UNCHANGED Search

(* -------------------------- NewPlanScreen ------------------------------ *)
FormBlob(n, de, dn) ==
  [ name |-> n, dayExercises |-> JSONstringify(de), dayNames |-> JSONstringify(dn) ]

\* the saveFormData effect for the rendered state (n, de, dn): the store
\* after it ran
saveFormData(n, de, dn) ==
  IF n # <<>> \/ DOMAIN de # {} \/ DOMAIN dn # {}
  THEN [AsyncStorage EXCEPT !.newPlanFormData = Some(FormBlob(n, de, dn))]
  ELSE AsyncStorage

\* onChangeText={setName}
setName(text) ==
  /\ screen = "new" /\ Idle
  /\ text # name
  /\ name' = text
  /\ AsyncStorage' = saveFormData(text, dayExercises, dayNames)
  /\ UNCHANGED << Week, Remote, Route, dayNames, dayExercises, saving, View, pc, Locals, alert >>
  /\ UNCHANGED Search

\* onChangeText={(text) => setDayNames(prev => ({ ...prev, [index]: text }))}
setDayNames(index, text) ==
  /\ screen = "new" /\ Idle
  /\ ~(index \in DOMAIN dayNames /\ dayNames[index] = text)
  /\ dayNames' = Put(dayNames, index, text)
  /\ AsyncStorage' = saveFormData(name, dayExercises, dayNames')
  /\ UNCHANGED << Week, Remote, Route, name, dayExercises, saving, View, pc, Locals, alert >>
  /\ UNCHANGED Search

\* checkPendingExercise on focus: the exercise picked for a day is appended
\* to that day's list
checkPendingExercise(day, exercise) ==
  /\ screen = "new" /\ Idle
  /\ Len(ListAt(dayExercises, day)) < MaxExPerDay
  /\ dayExercises' = Put(dayExercises, day, Append(ListAt(dayExercises, day), exercise))
  /\ AsyncStorage' = saveFormData(name, dayExercises', dayNames)
  /\ UNCHANGED << Week, Remote, Route, name, dayNames, saving, View, pc, Locals, alert >>
  /\ UNCHANGED Search

\* handleBack: clearFormData, then router.back() unmounts the screen
handleBack ==
  /\ screen = "new" /\ Idle
  /\ AsyncStorage' = [AsyncStorage EXCEPT !.newPlanFormData = None]
  /\ FreshForm
  /\ screen' = "plans"
  /\ UNCHANGED << Week, Remote, planId, isEditMode, View, pc, Locals, alert >>
  /\ UNCHANGED Search

\* the days handleSavePlan reports as missing a name
missingDayNames(de, dn) ==
  { day \in DOMAIN de : HasExercises(de, day) /\ ~HasName(dn, day) }

RECURSIVE DayRows(_, _, _, _, _)
\* one row per exercise of a day
DayRows(p, w, day, dn, exercises) ==
  IF exercises = <<>> THEN <<>>
  ELSE << Row(p, w, day, dn, Head(exercises).id, Head(exercises).sets,
              Head(exercises).reps, Head(exercises).rest_seconds) >>
       \o DayRows(p, w, day, dn, Tail(exercises))

RECURSIVE NamedDayInserts(_, _, _, _)
\* first loop of handleSavePlan: days that have a name but no exercises
NamedDayInserts(p, dn, de, days) ==
  IF days = {} THEN <<>>
  ELSE LET day == CHOOSE x \in days : \A y \in days : x <= y
           trimmedName == Trim(dn[day])
       IN  (IF trimmedName # <<>> /\ ~HasExercises(de, day)
            THEN << Row(p, NULL, day, trimmedName, NULL, NULL, NULL, NULL) >>
            ELSE <<>>)
           \o NamedDayInserts(p, dn, de, days \ {day})

RECURSIVE ExerciseInserts(_, _, _, _)
\* second loop of handleSavePlan: the exercises of the days that have a name
ExerciseInserts(p, dn, de, days) ==
  IF days = {} THEN <<>>
  ELSE LET day == CHOOSE x \in days : \A y \in days : x <= y
       IN  (IF HasName(dn, day)
            THEN DayRows(p, NULL, day, Trim(dn[day]), de[day])
            ELSE <<>>)
           \o ExerciseInserts(p, dn, de, days \ {day})

\* the array handleSavePlan passes to insert
PlanInserts(p, dn, de) ==
  NamedDayInserts(p, dn, de, DOMAIN dn) \o ExerciseInserts(p, dn, de, DOMAIN de)

\* handleSavePlan without the check of the plan name
handleSavePlanAnyName(maxPlans) ==
  /\ screen = "new" /\ Idle /\ ~saving
  /\ IF missingDayNames(dayExercises, dayNames) # {}
     THEN /\ alert' = "Please enter names for all days that have exercises"
          /\ UNCHANGED << saving, pc >>
     ELSE /\ Len(plans) < maxPlans
          /\ Len(rows) + Len(PlanInserts(0, dayNames, dayExercises)) <= MaxRows
          /\ saving' = TRUE
          /\ pc' = "sp_getToken"
          /\ UNCHANGED alert
  /\ UNCHANGED << Week, Remote, AsyncStorage, Route, name, dayNames, dayExercises, View, Locals >>
  /\ UNCHANGED Search

\* handleSavePlan up to its first await (at most maxPlans plans are created)
handleSavePlan(maxPlans) ==
  /\ screen = "new" /\ Idle /\ ~saving
  /\ IF Trim(name) = <<>>
     THEN /\ alert' = "Please enter a plan name"
          /\ UNCHANGED << saving, pc >>
     ELSE IF missingDayNames(dayExercises, dayNames) # {}
     THEN /\ alert' = "Please enter names for all days that have exercises"
          /\ UNCHANGED << saving, pc >>
     ELSE /\ Len(plans) < maxPlans
          /\ Len(rows) + Len(PlanInserts(0, dayNames, dayExercises)) <= MaxRows
          /\ saving' = TRUE
          /\ pc' = "sp_getToken"
          /\ UNCHANGED alert
  /\ UNCHANGED << Week, Remote, AsyncStorage, Route, name, dayNames, dayExercises, View, Locals >>
  /\ UNCHANGED Search

\* catch + finally of handleSavePlan
SavePlanFailed ==
  /\ alert' = "Failed to create workout plan"
  /\ saving' = FALSE
  /\ pc' = "idle"
  /\ shouldBeCurrent' = FALSE
  /\ UNCHANGED << Week, AsyncStorage, Route, name, dayNames, dayExercises, View, firstDay, targetDay >>

\* await getToken({ template: 'supabase' })
SavePlanGetToken ==
  /\ pc = "sp_getToken"
  /\ \/ pc' = "sp_selectCurrent" /\ UNCHANGED << Week, Remote, AsyncStorage, Route, Form, View, Locals, alert >>
     \/ SavePlanFailed /\ UNCHANGED Remote
  /\ UNCHANGED Search

\* select('id').eq('is_current', true)
SavePlanSelectCurrent ==
  /\ pc = "sp_selectCurrent"
  /\ \/ /\ shouldBeCurrent' = (\A i \in DOMAIN plans : ~plans[i].is_current)
        /\ pc' = "sp_insertPlan"
        /\ UNCHANGED << Week, Remote, AsyncStorage, Route, Form, View, firstDay, targetDay, alert >>
     \/ SavePlanFailed /\ UNCHANGED Remote
  /\ UNCHANGED Search

\* insert([{ name: name.trim(), is_current: shouldBeCurrent }])
SavePlanInsertPlan ==
  /\ pc = "sp_insertPlan"
  /\ \/ /\ plans' = Append(plans, PlanRow(Trim(name), shouldBeCurrent))
        /\ pc' = "sp_insertRows"
        /\ UNCHANGED << Week, rows, AsyncStorage, Route, Form, View, Locals, alert >>
     \/ SavePlanFailed /\ UNCHANGED Remote
  /\ UNCHANGED Search

\* insert(inserts), then the draft is cleared and the plan is shown
SavePlanInsertRows ==
  /\ pc = "sp_insertRows"
  /\ \/ /\ rows' = rows \o PlanInserts(Len(plans), dayNames, dayExercises)
        /\ UNCHANGED plans
        /\ AsyncStorage' = [AsyncStorage EXCEPT !.newPlanFormData = None]
        /\ FreshForm
        /\ pc' = "idle" /\ shouldBeCurrent' = FALSE
        /\ MountView(Len(plans), FALSE)
        /\ UNCHANGED << Week, firstDay, targetDay, alert >>
     \/ SavePlanFailed /\ UNCHANGED Remote
  /\ UNCHANGED Search

(* -------------------------- ViewPlanScreen ----------------------------- *)
\* fetchPlanDetails: the plan row, then its rows grouped by week
fetchPlanDetails ==
  /\ screen = "view" /\ loading /\ pc = "idle"
  /\ loading' = FALSE
  /\ \/ /\ plan' = Some(plans[planId])
        /\ weeks' = { WeekOf(rows[i]) : i \in RowsOf(planId) }
        /\ UNCHANGED alert
     \/ /\ plan' = Some(plans[planId])
        /\ alert' = "Failed to load workout plan"
        /\ UNCHANGED weeks
     \/ /\ alert' = "Failed to load workout plan"
        /\ UNCHANGED << plan, weeks >>
  /\ UNCHANGED << Week, Remote, AsyncStorage, Route, Form, pc, Locals >>
  /\ UNCHANGED Search

\* headerLeft: router.push('/plans')
ViewBack ==
  /\ screen = "view" /\ Idle
  /\ screen' = "plans" /\ planId' = NoPlan /\ isEditMode' = FALSE
  /\ plan' = None /\ weeks' = {} /\ loading' = FALSE
  /\ UNCHANGED << Week, Remote, AsyncStorage, Form, pc, Locals, alert >>
  /\ UNCHANGED Search

\* headerRight: router.replace(`/plans/view/${id}?mode=edit`), and the bottom
\* button in edit mode: router.replace(`/plans/view/${id}`)
ToggleEditMode ==
  /\ screen = "view" /\ Idle /\ ~loading
  /\ MountView(planId, ~isEditMode)
  /\ UNCHANGED << Week, Remote, AsyncStorage, Form, pc, Locals, alert >>
  /\ UNCHANGED Search

\* the bottom button when the fetched plan is not current
handleChangePlan ==
  /\ screen = "view" /\ Idle /\ ~loading
  /\ ~isEditMode /\ plan # None /\ ~plan[1].is_current
  /\ pc' = "cp_getToken"
  /\ UNCHANGED << Week, Remote, AsyncStorage, Route, Form, View, Locals, alert >>
  /\ UNCHANGED Search

\* handleChangePlan returns; refetch says whether fetchPlanDetails() is called
ChangePlanDone(refetch) ==
  /\ pc' = "idle"
  /\ firstDay' = <<>> /\ targetDay' = NoRow
  /\ loading' = (refetch \/ loading)
  /\ UNCHANGED << Week, AsyncStorage, Route, Form, plan, weeks, shouldBeCurrent >>

ChangePlanGetToken ==
  /\ pc = "cp_getToken"
  /\ \/ pc' = "cp_clearPlans" /\ UNCHANGED << Week, Remote, AsyncStorage, Route, Form, View, Locals, alert >>
     \/ /\ ChangePlanDone(FALSE)
        /\ alert' = "Failed to change current plan"
        /\ UNCHANGED Remote
  /\ UNCHANGED Search

\* update({ is_current: false }).eq('user_id', user.id); the result is not read
ChangePlanClearPlans ==
  /\ pc = "cp_clearPlans"
  /\ \/ plans' = [i \in DOMAIN plans |-> [plans[i] EXCEPT !.is_current = FALSE]]
     \/ UNCHANGED plans
  /\ pc' = "cp_setCurrent"
  /\ UNCHANGED << Week, rows, AsyncStorage, Route, Form, View, Locals, alert >>
  /\ UNCHANGED Search

\* update({ is_current: true }).eq('id', id); the result is not read
ChangePlanSetCurrent ==
  /\ pc = "cp_setCurrent"
  /\ \/ plans' = [plans EXCEPT ![planId].is_current = TRUE]
     \/ UNCHANGED plans
  /\ pc' = "cp_firstDay"
  /\ UNCHANGED << Week, rows, AsyncStorage, Route, Form, View, Locals, alert >>
  /\ UNCHANGED Search

\* select('day_name, day_order') of the first day
ChangePlanFirstDay ==
  /\ pc = "cp_firstDay"
  /\ \/ /\ RowsOf(planId) # {}
        /\ \E i \in FirstDayRows(planId) : firstDay' = rows[i].day_name
        /\ pc' = "cp_clearDays"
        /\ UNCHANGED << Week, AsyncStorage, Route, Form, View, shouldBeCurrent, targetDay >>
     \/ /\ RowsOf(planId) = {}
        /\ ChangePlanDone(TRUE)
     \/ ChangePlanDone(FALSE)
  /\ UNCHANGED << Remote, alert >>
  /\ UNCHANGED Search

\* update({ is_current: false }).eq('plan_id', id)
ChangePlanClearDays ==
  /\ pc = "cp_clearDays"
  /\ \/ /\ rows' = [i \in DOMAIN rows |->
                      IF i \in RowsOf(planId) THEN [rows[i] EXCEPT !.is_current = FALSE]
                      ELSE rows[i]]
        /\ pc' = "cp_target"
        /\ UNCHANGED << Week, AsyncStorage, Route, Form, View, Locals >>
     \/ ChangePlanDone(FALSE) /\ UNCHANGED rows
  /\ UNCHANGED << plans, alert >>
  /\ UNCHANGED Search

\* select('id, day_name').eq('day_name', ...).order('created_at').limit(1)
ChangePlanTarget ==
  /\ pc = "cp_target"
  /\ LET named == { i \in RowsOf(planId) : rows[i].day_name = firstDay }
     IN  \/ /\ named # {}
            /\ targetDay' = CHOOSE i \in named : \A j \in named : i <= j
            /\ pc' = "cp_setDay"
            /\ UNCHANGED << Week, AsyncStorage, Route, Form, View, shouldBeCurrent, firstDay >>
         \/ ChangePlanDone(FALSE)
  /\ UNCHANGED << Remote, alert >>
  /\ UNCHANGED Search

\* update({ is_current: true }).eq('id', targetDay[0].id)
ChangePlanSetDay ==
  /\ pc = "cp_setDay"
  /\ \/ /\ rows' = [rows EXCEPT ![targetDay].is_current = TRUE]
        /\ pc' = "cp_verify"
        /\ UNCHANGED << Week, AsyncStorage, Route, Form, View, Locals >>
     \/ ChangePlanDone(FALSE) /\ UNCHANGED rows
  /\ UNCHANGED << plans, alert >>
  /\ UNCHANGED Search

\* the verifying select, then fetchPlanDetails()
ChangePlanVerify ==
  /\ pc = "cp_verify"
  /\ ChangePlanDone(TRUE)
  /\ UNCHANGED << Remote, alert >>
  /\ UNCHANGED Search

(* -------------------------- DayDetailScreen ---------------------------- *)
\* the route /plans/view/[id]/[day]
OpenDay ==
  /\ screen = "view" /\ Idle /\ ~loading
  /\ screen' = "day" /\ isEditMode' = FALSE
  /\ plan' = None /\ weeks' = {} /\ loading' = TRUE
  /\ UNCHANGED << Week, Remote, AsyncStorage, planId, Form, pc, Locals, alert >>
  /\ UNCHANGED Search

\* fetchDayExercises: a failure is only logged
fetchDayExercises ==
  /\ screen = "day" /\ loading /\ pc = "idle"
  /\ loading' = FALSE
  /\ \/ plan' = Some(plans[planId])
     \/ UNCHANGED plan
  /\ UNCHANGED << Week, Remote, AsyncStorage, Route, Form, weeks, pc, Locals, alert >>
  /\ UNCHANGED Search

\* headerLeft: router.push(`/plans/view/${planId}`)
DayBack ==
  /\ screen = "day" /\ Idle
  /\ MountView(planId, FALSE)
  /\ UNCHANGED << Week, Remote, AsyncStorage, Form, pc, Locals, alert >>
  /\ UNCHANGED Search

\* the bottom button when the fetched plan is not current
DayChangePlan ==
  /\ screen = "day" /\ Idle /\ ~loading
  /\ plan # None /\ ~plan[1].is_current
  /\ pc' = "dc_getToken"
  /\ UNCHANGED << Week, Remote, AsyncStorage, Route, Form, View, Locals, alert >>
  /\ UNCHANGED Search

DayChangePlanGetToken ==
  /\ pc = "dc_getToken"
  /\ \/ pc' = "dc_clearPlans" /\ UNCHANGED << Week, Remote, AsyncStorage, Route, Form, View, Locals, alert >>
     \/ /\ ChangePlanDone(FALSE)
        /\ alert' = "Failed to change current plan"
        /\ UNCHANGED Remote
  /\ UNCHANGED Search

\* update({ is_current: false }).eq('user_id', user.id); the result is not read
DayChangePlanClearPlans ==
  /\ pc = "dc_clearPlans"
  /\ \/ plans' = [i \in DOMAIN plans |-> [plans[i] EXCEPT !.is_current = FALSE]]
     \/ UNCHANGED plans
  /\ pc' = "dc_clearDays"
  /\ UNCHANGED << Week, rows, AsyncStorage, Route, Form, View, Locals, alert >>
  /\ UNCHANGED Search

\* update({ is_current: false }).eq('plan_id', planId); the result is not read
DayChangePlanClearDays ==
  /\ pc = "dc_clearDays"
  /\ \/ rows' = [i \in DOMAIN rows |->
                   IF i \in RowsOf(planId) THEN [rows[i] EXCEPT !.is_current = FALSE]
                   ELSE rows[i]]
     \/ UNCHANGED rows
  /\ pc' = "dc_setCurrent"
  /\ UNCHANGED << Week, plans, AsyncStorage, Route, Form, View, Locals, alert >>
  /\ UNCHANGED Search

\* update({ is_current: true }).eq('id', planId); the result is not read
DayChangePlanSetCurrent ==
  /\ pc = "dc_setCurrent"
  /\ \/ plans' = [plans EXCEPT ![planId].is_current = TRUE]
     \/ UNCHANGED plans
  /\ pc' = "dc_firstDay"
  /\ UNCHANGED << Week, rows, AsyncStorage, Route, Form, View, Locals, alert >>
  /\ UNCHANGED Search

\* select('day_name') of the first day; without data the day update is skipped
DayChangePlanFirstDay ==
  /\ pc = "dc_firstDay"
  /\ \/ /\ RowsOf(planId) # {}
        /\ \E i \in FirstDayRows(planId) : firstDay' = rows[i].day_name
        /\ pc' = "dc_setDays"
        /\ UNCHANGED << Week, AsyncStorage, Route, Form, View, shouldBeCurrent, targetDay >>
     \/ ChangePlanDone(TRUE)
  /\ UNCHANGED << Remote, alert >>
  /\ UNCHANGED Search

\* update({ is_current: true }).eq('plan_id', planId).eq('day_name', ...),
\* then fetchDayExercises()
DayChangePlanSetDays ==
  /\ pc = "dc_setDays"
  /\ \/ rows' = [i \in DOMAIN rows |->
                   IF i \in RowsOf(planId) /\ rows[i].day_name = firstDay
                   THEN [rows[i] EXCEPT !.is_current = TRUE]
                   ELSE rows[i]]
     \/ UNCHANGED rows
  /\ ChangePlanDone(TRUE)
  /\ UNCHANGED << plans, alert >>
  /\ UNCHANGED Search

(* ------------------------- WeekConfigScreen ---------------------------- *)
\* the state of a WeekConfigScreen that is not mounted
UnmountWeek ==
  /\ FreshForm
  /\ initialDayNames' = EmptyMap
  /\ initialDayExercises' = EmptyMap
  /\ pending' = {}
  /\ addExerciseDay' = NoDay

\* a mounted WeekConfigScreen: useState defaults, and the focus effect, the
\* mount effects and fetchWeekData started
MountWeek(p, edit) ==
  /\ screen' = "week" /\ planId' = p /\ isEditMode' = edit
  /\ FreshForm
  /\ initialDayNames' = EmptyMap
  /\ initialDayExercises' = EmptyMap
  /\ pending' = {"loadDayNames"} \cup (IF edit THEN {"loadInitialData"} ELSE {})
  /\ addExerciseDay' = NoDay
  /\ plan' = None /\ weeks' = {} /\ loading' = TRUE

\* ViewPlanScreen "Add Week 1", shown when no week was fetched
AddWeek ==
  /\ screen = "view" /\ Idle /\ ~loading
  /\ weeks = {}
  /\ MountWeek(planId, FALSE)
  /\ UNCHANGED << Remote, AsyncStorage, pc, Locals, alert >>
  /\ UNCHANGED Search

\* ViewPlanScreen in edit mode: a press on the card of week weekNumber
EditWeek ==
  /\ screen = "view" /\ Idle /\ ~loading
  /\ plan # None /\ isEditMode /\ weekNumber \in weeks
  /\ MountWeek(planId, TRUE)
  /\ UNCHANGED << Remote, AsyncStorage, pc, Locals, alert >>
  /\ UNCHANGED Search

\* the focus effect: the stored day names become the draft's day names, and
\* the snapshot in edit mode (the effect's closure sees the first render's
\* empty initialDayNames)
loadDayNames ==
  /\ screen = "week" /\ pc = "idle"
  /\ "loadDayNames" \in pending
  /\ pending' = pending \ {"loadDayNames"}
  /\ LET savedNames == AsyncStorage.DayNames[planId]
         parsedNames == IF savedNames # None THEN JSONparse(savedNames[1]) ELSE EmptyMap
     IN  /\ dayNames' = parsedNames
         /\ initialDayNames' = IF isEditMode THEN parsedNames ELSE EmptyMap
  /\ UNCHANGED << Remote, AsyncStorage, Route, name, dayExercises, saving,
                  initialDayExercises, addExerciseDay, View, pc, Locals, alert >>
  /\ UNCHANGED Search

\* onChangeText of a day's name input
handleDayNameChange(dayNumber, text) ==
  /\ screen = "week" /\ Idle /\ ~loading /\ ~saving
  /\ (IF dayNumber \in DOMAIN dayNames THEN dayNames[dayNumber] ELSE <<>>) # text
  /\ LET newNames == Put(dayNames, dayNumber, text)
     IN  /\ dayNames' = newNames
         /\ AsyncStorage' =
              [AsyncStorage EXCEPT !.DayNames[planId] = Some(JSONstringify(newNames))]
  /\ UNCHANGED << Week, Remote, Route, name, dayExercises, saving, View, pc, Locals, alert >>
  /\ UNCHANGED Search

\* the rows select('...').eq('plan_id', p).eq('week_number', weekNumber)
\* returns, ordered by day_order (rows of one day in creation order)
RECURSIVE SortByDayOrder(_, _)
SortByDayOrder(rs, days) ==
  IF days = {} THEN <<>>
  ELSE LET d == CHOOSE x \in days : \A y \in days : x <= y
           OfDay(r) == r.day_order = d
       IN  SelectSeq(rs, OfDay) \o SortByDayOrder(rs, days \ {d})

WeekRows(p) ==
  LET InWeek(r) == r.plan_id = p /\ r.week_number = weekNumber
      rs == SelectSeq(rows, InWeek)
  IN  SortByDayOrder(rs, { rs[i].day_order : i \in DOMAIN rs })

\* what order('day_order', { ascending: true }) alone can return for the
\* week: the rows by day_order, those of one day_order in the server's order
WeekRowOrders(p) ==
  LET rs == WeekRows(p)
  IN  { [i \in DOMAIN rs |-> rs[f[i]]] : f \in
          { g \in Permutations(DOMAIN rs) :
              \A i, j \in DOMAIN rs : i <= j => rs[g[i]].day_order <= rs[g[j]].day_order } }

\* v || 0
OrZero(v) == IF v = NULL THEN 0 ELSE v

\* exercises(id, name): the catalog exercise joined to a row
ExerciseName(id) == (CHOOSE e \in DiffExercises : e.id = id).name

\* the forEach of loadInitialData over the selected rows: names
RECURSIVE NamesOfRows(_)
NamesOfRows(rs) ==
  IF rs = <<>> THEN EmptyMap
  ELSE LET r == rs[Len(rs)]
           names == NamesOfRows(SubSeq(rs, 1, Len(rs) - 1))
       IN  IF r.day_name # <<>> THEN Put(names, r.day_order, r.day_name) ELSE names

\* the forEach over the selected rows: exercises
RECURSIVE ExercisesOfRows(_)
ExercisesOfRows(rs) ==
  IF rs = <<>> THEN EmptyMap
  ELSE LET r == rs[Len(rs)]
           exercises == ExercisesOfRows(SubSeq(rs, 1, Len(rs) - 1))
       IN  IF r.exercise_id # NULL
           THEN Put(exercises, r.day_order,
                    Append(ListAt(exercises, r.day_order),
                           [ id |-> r.exercise_id, name |-> ExerciseName(r.exercise_id),
                             sets |-> OrZero(r.sets), reps |-> OrZero(r.reps),
                             rest_seconds |-> OrZero(r.rest_seconds) ]))
           ELSE exercises

\* the mount effect of edit mode: the snapshot is what the remote week holds;
\* a failure is only logged
loadInitialData ==
  /\ screen = "week" /\ pc = "idle"
  /\ "loadInitialData" \in pending
  /\ pending' = pending \ {"loadInitialData"}
  /\ \/ \E daysData \in WeekRowOrders(planId) :
          /\ initialDayNames' = NamesOfRows(daysData)
          /\ initialDayExercises' = ExercisesOfRows(daysData)
     \/ UNCHANGED << initialDayNames, initialDayExercises >>
  /\ UNCHANGED << Remote, AsyncStorage, Route, Form, addExerciseDay, View, pc, Locals, alert >>
  /\ UNCHANGED Search

\* the mount effect fetchWeekData: the stored exercises if there are any,
\* else the remote week's
fetchWeekData ==
  /\ screen = "week" /\ pc = "idle" /\ loading
  /\ loading' = FALSE
  /\ LET savedExercisesStr == AsyncStorage.Exercises[planId]
     IN  IF savedExercisesStr # None
         THEN /\ dayExercises' = JSONparse(savedExercisesStr[1])
              /\ initialDayExercises' =
                   IF isEditMode THEN JSONparse(savedExercisesStr[1]) ELSE EmptyMap
              /\ UNCHANGED alert
         ELSE \/ /\ \E data \in WeekRowOrders(planId) :
                      dayExercises' = ExercisesOfRows(data)
                 /\ initialDayExercises' =
                      IF isEditMode THEN EmptyMap ELSE initialDayExercises
                 /\ UNCHANGED alert
              \/ /\ alert' = "Failed to load week data"
                 /\ UNCHANGED << dayExercises, initialDayExercises >>
  /\ UNCHANGED << Remote, AsyncStorage, Route, name, dayNames, saving, initialDayNames,
                  pending, addExerciseDay, plan, weeks, pc, Locals >>
  /\ UNCHANGED Search

(* ------------------------- AddExerciseScreen --------------------------- *)
\* the "+" of a day: router.push('/plans/new/add-exercise?...&day=...'); the
\* fields of the screen start empty
OpenAddExercise(dayNumber) ==
  /\ screen = "week" /\ Idle /\ ~loading /\ ~saving
  /\ screen' = "add"
  /\ addExerciseDay' = dayNumber
  /\ UNCHANGED << Remote, AsyncStorage, planId, isEditMode, Form, initialDayNames,
                  initialDayExercises, pending, View, pc, Locals, alert >>
  /\ UNCHANGED Search

\* the header's back: the week screen regains focus and its focus effect runs
AddExerciseBack ==
  /\ screen = "add" /\ Idle
  /\ screen' = "week"
  /\ addExerciseDay' = NoDay
  /\ pending' = pending \cup {"loadDayNames"}
  /\ ResetFields
  /\ UNCHANGED << Remote, AsyncStorage, planId, isEditMode, Form, initialDayNames,
                  initialDayExercises, View, pc, Locals, alert >>
  /\ UNCHANGED << searchQuery, foundExercises, debounceTimeout, searching, Library, Reload >>

\* what the sets, reps and rest fields of the form can hold
SetsInputs == { <<"3">>, <<"3", "x">>, <<"0">> }
RepsInputs == { <<"1", "0">>, <<>> }
RestInputs == { <<"6", "0">>, <<"-", "1">> }

DecimalDigits == << "0", "1", "2", "3", "4", "5", "6", "7", "8", "9" >>
IsDigit(c) == \E i \in DOMAIN DecimalDigits : DecimalDigits[i] = c
DigitValue(c) == (CHOOSE i \in DOMAIN DecimalDigits : DecimalDigits[i] = c) - 1

\* the longest prefix of s made of digits
RECURSIVE LeadingDigits(_)
LeadingDigits(s) ==
  IF s # <<>> /\ IsDigit(Head(s)) THEN << Head(s) >> \o LeadingDigits(Tail(s)) ELSE <<>>

RECURSIVE DecimalValue(_)
DecimalValue(d) ==
  IF d = <<>> THEN 0 ELSE 10 * DecimalValue(SubSeq(d, 1, Len(d) - 1)) + DigitValue(d[Len(d)])

\* parseInt: leading white space is skipped, a sign is read, then the
\* longest run of digits; what follows is ignored; NaN (None) without a digit
parseInt(text) ==
  LET s == TrimStart(text)
      signed == s # <<>> /\ Head(s) \in {"-", "+"}
      d == LeadingDigits(IF signed THEN Tail(s) ELSE s)
  IN  IF d = <<>> THEN None
      ELSE Some(IF signed /\ Head(s) = "-" THEN 0 - DecimalValue(d) ELSE DecimalValue(d))

isNaN(n) == n = None

\* onChangeText={setSets} of either add-exercise screen (not while it saves)
setSets(text) ==
  /\ screen \in {"add", "addToPlan"} /\ Idle /\ ~saving
  /\ text # sets
  /\ sets' = text
  /\ UNCHANGED << reps, restSeconds, searchQuery, foundExercises, debounceTimeout, searching,
                  Library, Reload >>
  /\ UNCHANGED << Week, Remote, AsyncStorage, Route, Form, View, pc, Locals, alert >>

\* onChangeText={setReps}
setReps(text) ==
  /\ screen \in {"add", "addToPlan"} /\ Idle /\ ~saving
  /\ text # reps
  /\ reps' = text
  /\ UNCHANGED << sets, restSeconds, searchQuery, foundExercises, debounceTimeout, searching,
                  Library, Reload >>
  /\ UNCHANGED << Week, Remote, AsyncStorage, Route, Form, View, pc, Locals, alert >>

\* onChangeText={setRestSeconds}
setRestSeconds(text) ==
  /\ screen \in {"add", "addToPlan"} /\ Idle /\ ~saving
  /\ text # restSeconds
  /\ restSeconds' = text
  /\ UNCHANGED << sets, reps, searchQuery, foundExercises, debounceTimeout, searching,
                  Library, Reload >>
  /\ UNCHANGED << Week, Remote, AsyncStorage, Route, Form, View, pc, Locals, alert >>

\* the fields of the add-exercise form, filled with valid values
ValidFieldsNext ==
  \/ setSets(<<"3">>)
  \/ setReps(<<"1", "0">>)
  \/ setRestSeconds(<<"6", "0">>)

\* the fields of the add-exercise form, any input
FieldsNext ==
  \/ \E text \in SetsInputs : setSets(text)
  \/ \E text \in RepsInputs : setReps(text)
  \/ \E text \in RestInputs : setRestSeconds(text)

\* "Add to Plan" with a selected exercise: sets, reps and rest are parsed
\* and checked first, each failure with its alert; then the exercise is
\* appended to the stored day and a new week screen replaces this one; a
\* failing getToken, getItem or setItem is reported by the one catch and
\* nothing else happens
handleAddExercise(exercise) ==
  /\ screen = "add" /\ Idle
  /\ LET setsNum == parseInt(sets)
         repsNum == parseInt(reps)
         restNum == parseInt(restSeconds)
         savedExercisesStr == AsyncStorage.Exercises[planId]
         savedExercises ==
           IF savedExercisesStr # None THEN JSONparse(savedExercisesStr[1]) ELSE EmptyMap
         updatedExercises ==
           Put(savedExercises, addExerciseDay,
               Append(ListAt(savedExercises, addExerciseDay),
                      [id |-> exercise.id, name |-> exercise.name, sets |-> setsNum[1],
                       reps |-> repsNum[1], rest_seconds |-> restNum[1]]))
     IN  IF isNaN(setsNum) \/ setsNum[1] < 1
         THEN /\ alert' = "Please enter a valid number of sets"
              /\ UNCHANGED << AsyncStorage, Route, Form, Week, View, Fields >>
         ELSE IF isNaN(repsNum) \/ repsNum[1] < 1
         THEN /\ alert' = "Please enter a valid number of reps"
              /\ UNCHANGED << AsyncStorage, Route, Form, Week, View, Fields >>
         ELSE IF isNaN(restNum) \/ restNum[1] < 0
         THEN /\ alert' = "Please enter a valid rest time"
              /\ UNCHANGED << AsyncStorage, Route, Form, Week, View, Fields >>
         ELSE /\ Len(ListAt(savedExercises, addExerciseDay)) < MaxExPerDay
              /\ \/ /\ AsyncStorage' =
                        [AsyncStorage EXCEPT
                           !.Exercises[planId] = Some(JSONstringify(updatedExercises))]
                    /\ MountWeek(planId, isEditMode)
                    /\ ResetFields
                    /\ UNCHANGED alert
                 \/ /\ alert' = "Failed to save exercise data"
                    /\ UNCHANGED << AsyncStorage, Route, Form, Week, View, Fields >>
  /\ UNCHANGED << Remote, pc, Locals >>
  /\ UNCHANGED << searchQuery, foundExercises, debounceTimeout, searching, Library, Reload >>

(* --------------------- WeekConfigScreen: save -------------------------- *)
\* dayNames[parseInt(dayNumber)] || ''
NameOr(dn, dayNumber) == IF dayNumber \in DOMAIN dn THEN dn[dayNumber] ELSE <<>>

RECURSIVE WeekNameRows(_, _, _)
\* Object.keys(dayNames).map(...): a row without exercise for every key
WeekNameRows(p, dn, days) ==
  IF days = {} THEN <<>>
  ELSE LET dayNumber == CHOOSE x \in days : \A y \in days : x <= y
       IN  << Row(p, weekNumber, dayNumber, NameOr(dn, dayNumber), NULL, NULL, NULL, NULL) >>
           \o WeekNameRows(p, dn, days \ {dayNumber})

RECURSIVE WeekExerciseRows(_, _, _, _)
\* Object.entries(dayExercises).forEach(...): a row for every exercise
WeekExerciseRows(p, dn, de, days) ==
  IF days = {} THEN <<>>
  ELSE LET dayNumber == CHOOSE x \in days : \A y \in days : x <= y
       IN  DayRows(p, weekNumber, dayNumber, NameOr(dn, dayNumber), de[dayNumber])
           \o WeekExerciseRows(p, dn, de, days \ {dayNumber})

\* the array handleSaveWeek passes to insert
daysToSave(p, dn, de) ==
  WeekNameRows(p, dn, DOMAIN dn) \o WeekExerciseRows(p, dn, de, DOMAIN de)

\* the rows the delete of handleSaveWeek leaves
RowsAfterDelete(p) ==
  LET Kept(r) == ~(r.plan_id = p /\ r.week_number = weekNumber)
  IN  SelectSeq(rows, Kept)

\* the save button (disabled while saving or without any day name) up to the
\* first await of handleSaveWeek
handleSaveWeek ==
  /\ screen = "week" /\ Idle /\ ~loading /\ ~saving
  /\ DOMAIN dayNames # {}
  /\ Len(RowsAfterDelete(planId)) + Len(daysToSave(planId, dayNames, dayExercises)) <= MaxRows
  /\ saving' = TRUE
  /\ pc' = "sw_getToken"
  /\ UNCHANGED << Week, Remote, AsyncStorage, Route, name, dayNames, dayExercises, View,
                  Locals, alert >>
  /\ UNCHANGED Search

\* catch of handleSaveWeek without the finally that resets saving
SaveWeekFailedSaving ==
  /\ alert' = "Failed to save week configuration"
  /\ saving' = TRUE
  /\ pc' = "idle"
  /\ UNCHANGED << Week, AsyncStorage, Route, name, dayNames, dayExercises, View, Locals >>

\* catch + finally of handleSaveWeek
SaveWeekFailed ==
  /\ alert' = "Failed to save week configuration"
  /\ saving' = FALSE
  /\ pc' = "idle"
  /\ UNCHANGED << Week, AsyncStorage, Route, name, dayNames, dayExercises, View, Locals >>

\* await getToken({ template: 'supabase' })
SaveWeekGetToken ==
  /\ pc = "sw_getToken"
  /\ \/ pc' = "sw_delete" /\ UNCHANGED << Week, AsyncStorage, Route, Form, View, Locals, alert >>
     \/ SaveWeekFailed
  /\ UNCHANGED Remote
  /\ UNCHANGED Search

\* await delete().eq('plan_id', planId).eq('week_number', weekNumber): the
\* result is not read, so an error does not stop the save
SaveWeekDelete ==
  /\ pc = "sw_delete"
  /\ \/ rows' = RowsAfterDelete(planId)
     \/ /\ Len(rows) + Len(daysToSave(planId, dayNames, dayExercises)) <= MaxRows
        /\ UNCHANGED rows
  /\ pc' = "sw_insert"
  /\ UNCHANGED << Week, plans, AsyncStorage, Route, Form, View, Locals, alert >>
  /\ UNCHANGED Search

\* handleSaveWeek whose failed insert has stored its rows all the same
SaveWeekInsertStored ==
  /\ pc = "sw_insert"
  /\ \/ /\ rows' = rows \o daysToSave(planId, dayNames, dayExercises)
        /\ AsyncStorage' =
             [AsyncStorage EXCEPT !.DayNames[planId] = Some(JSONstringify(dayNames)),
                                  !.Exercises[planId] = Some(JSONstringify(dayExercises))]
        /\ UnmountWeek
        /\ MountView(planId, TRUE)
        /\ pc' = "idle"
        /\ UNCHANGED << Locals, alert >>
     \/ /\ SaveWeekFailed
        /\ rows' = rows \o daysToSave(planId, dayNames, dayExercises)
  /\ UNCHANGED plans
  /\ UNCHANGED Search

\* insert(daysToSave); then both keys are written with the saved draft and
\* the plan is shown in edit mode
SaveWeekInsert ==
  /\ pc = "sw_insert"
  /\ \/ /\ rows' = rows \o daysToSave(planId, dayNames, dayExercises)
        /\ AsyncStorage' =
             [AsyncStorage EXCEPT !.DayNames[planId] = Some(JSONstringify(dayNames)),
                                  !.Exercises[planId] = Some(JSONstringify(dayExercises))]
        /\ UnmountWeek
        /\ MountView(planId, TRUE)
        /\ pc' = "idle"
        /\ UNCHANGED << Locals, alert >>
     \/ SaveWeekFailed /\ UNCHANGED rows
  /\ UNCHANGED plans
  /\ UNCHANGED Search

(* ----------------- WeekConfigScreen: leaving the screen ---------------- *)
\* JSON.stringify of a list of exercises
StringifyList(l) ==
  [i \in DOMAIN l |-> << l[i].id, l[i].name, l[i].sets, l[i].reps, l[i].rest_seconds >>]

\* m[key], undefined for a missing key
At(m, key) == IF key \in DOMAIN m THEN Some(m[key]) ELSE None

\* the change detection with the exercise count taken against the wrong
\* snapshot
hasChangesCrossed(dn, idn, de, ide) ==
  LET dayNamesLengthDiff == Cardinality(DOMAIN dn) # Cardinality(DOMAIN idn)
      exercisesLengthDiff == Cardinality(DOMAIN de) # Cardinality(DOMAIN idn)
      dayNamesContentDiff ==
        \E key \in (DOMAIN dn) \cup (DOMAIN idn) : At(dn, key) # At(idn, key)
      exercisesContentDiff ==
        \E key \in (DOMAIN de) \cup (DOMAIN ide) :
           StringifyList(ListAt(de, key)) # StringifyList(ListAt(ide, key))
  IN  dayNamesLengthDiff \/ dayNamesContentDiff \/ exercisesLengthDiff \/ exercisesContentDiff

\* the change detection of the header's back button
hasChanges(dn, idn, de, ide) ==
  LET dayNamesLengthDiff == Cardinality(DOMAIN dn) # Cardinality(DOMAIN idn)
      exercisesLengthDiff == Cardinality(DOMAIN de) # Cardinality(DOMAIN ide)
      dayNamesContentDiff ==
        \E key \in (DOMAIN dn) \cup (DOMAIN idn) : At(dn, key) # At(idn, key)
      exercisesContentDiff ==
        \E key \in (DOMAIN de) \cup (DOMAIN ide) :
           StringifyList(ListAt(de, key)) # StringifyList(ListAt(ide, key))
  IN  dayNamesLengthDiff \/ dayNamesContentDiff \/ exercisesLengthDiff \/ exercisesContentDiff

\* headerLeft onPress: the prompt when there are changes, else the plan in
\* edit mode
WeekBack ==
  /\ screen = "week" /\ Idle
  /\ IF hasChanges(dayNames, initialDayNames, dayExercises, initialDayExercises)
     THEN /\ alert' = "Discard Changes"
          /\ UNCHANGED << Week, Route, Form, View >>
     ELSE /\ UnmountWeek
          /\ MountView(planId, TRUE)
          /\ UNCHANGED alert
  /\ UNCHANGED << Remote, AsyncStorage, pc, Locals >>
  /\ UNCHANGED Search

\* "Discard": both keys are written with the snapshot, then the plan is
\* shown in edit mode
Discard ==
  /\ screen = "week" /\ alert = "Discard Changes"
  /\ alert' = NoAlert
  /\ AsyncStorage' =
       [AsyncStorage EXCEPT !.DayNames[planId] = Some(JSONstringify(initialDayNames)),
                            !.Exercises[planId] = Some(JSONstringify(initialDayExercises))]
  /\ UnmountWeek
  /\ MountView(planId, TRUE)
  /\ UNCHANGED << Remote, pc, Locals >>
  /\ UNCHANGED Search

(* -------------------------- PlanDetailScreen --------------------------- *)
\* the rows select('...').eq('plan_id', p) returns, ordered by day_order and
\* created_at
PlanRows(p) ==
  LET OfPlan(r) == r.plan_id = p
      rs == SelectSeq(rows, OfPlan)
  IN  SortByDayOrder(rs, { rs[i].day_order : i \in DOMAIN rs })

\* the useMemo exercisesByDay: the fetched rows grouped by day_order
RECURSIVE GroupByDay(_)
GroupByDay(rs) ==
  IF rs = <<>> THEN EmptyMap
  ELSE LET r == rs[Len(rs)]
           grouped == GroupByDay(SubSeq(rs, 1, Len(rs) - 1))
       IN  Put(grouped, r.day_order, Append(ListAt(grouped, r.day_order), r))

\* a plan card of the list that edits: router.push(`/plans/${item.id}`);
\* PlanDetailScreen mounts and starts fetchPlanDetails
OpenPlanDetail(p) ==
  /\ screen = "plans" /\ Idle
  /\ p \in 1 .. Len(plans)
  /\ screen' = "detail" /\ planId' = p /\ isEditMode' = FALSE
  /\ plan' = None /\ weeks' = {} /\ loading' = TRUE
  /\ FreshForm
  /\ UNCHANGED << Week, Remote, AsyncStorage, pc, Locals, alert >>
  /\ UNCHANGED Search

\* fetchPlanDetails of PlanDetailScreen: the plan's name, its rows and their
\* day names; on a failure the alert is shown and router.back() leaves
PlanDetailFetch ==
  /\ screen = "detail" /\ loading /\ pc = "idle"
  /\ loading' = FALSE
  /\ \/ /\ plan' = Some(plans[planId])
        /\ name' = plans[planId].name
        /\ dayExercises' = GroupByDay(PlanRows(planId))
        /\ dayNames' = NamesOfRows(PlanRows(planId))
        /\ UNCHANGED << Route, alert, saving >>
     \/ /\ alert' = "Failed to load workout plan"
        /\ screen' = "plans" /\ planId' = NoPlan
        /\ plan' = None
        /\ FreshForm
        /\ UNCHANGED isEditMode
  /\ UNCHANGED << Week, Remote, AsyncStorage, weeks, pc, Locals >>
  /\ UNCHANGED Search

\* the stack header's back
PlanDetailBack ==
  /\ screen = "detail" /\ Idle
  /\ screen' = "plans" /\ planId' = NoPlan
  /\ plan' = None /\ loading' = FALSE
  /\ FreshForm
  /\ UNCHANGED << Week, Remote, AsyncStorage, isEditMode, weeks, pc, Locals, alert >>
  /\ UNCHANGED Search

\* onChangeText={setPlanName}
setPlanName(text) ==
  /\ screen = "detail" /\ Idle /\ ~loading /\ plan # None
  /\ text # name
  /\ name' = text
  /\ UNCHANGED << Week, Remote, AsyncStorage, Route, dayNames, dayExercises, saving, View,
                  pc, Locals, alert >>
  /\ UNCHANGED Search

\* onChangeText of the name input of a day that has rows
PlanDetailSetDayNames(dayOrder, text) ==
  /\ screen = "detail" /\ Idle /\ ~loading /\ plan # None
  /\ dayOrder \in DOMAIN dayExercises
  /\ NameOr(dayNames, dayOrder) # text
  /\ dayNames' = Put(dayNames, dayOrder, text)
  /\ UNCHANGED << Week, Remote, AsyncStorage, Route, name, dayExercises, saving, View,
                  pc, Locals, alert >>
  /\ UNCHANGED Search

\* handleSavePlan of PlanDetailScreen up to its first await
PlanDetailSavePlan ==
  /\ screen = "detail" /\ Idle /\ ~loading /\ plan # None /\ ~saving
  /\ IF Trim(name) = <<>>
     THEN /\ alert' = "Please enter a plan name"
          /\ UNCHANGED << saving, pc >>
     ELSE IF \E dayOrder \in DOMAIN dayExercises : ~HasName(dayNames, dayOrder)
     THEN /\ alert' = "Please enter names for all days that have exercises"
          /\ UNCHANGED << saving, pc >>
     ELSE /\ saving' = TRUE
          /\ pc' = "ep_getToken"
          /\ UNCHANGED alert
  /\ UNCHANGED << Week, Remote, AsyncStorage, Route, name, dayNames, dayExercises, View, Locals >>
  /\ UNCHANGED Search

\* catch + finally of handleSavePlan of PlanDetailScreen
UpdatePlanFailed ==
  /\ alert' = "Failed to update workout plan"
  /\ saving' = FALSE
  /\ pc' = "idle"
  /\ UNCHANGED << Week, AsyncStorage, Route, name, dayNames, dayExercises, View, Locals >>

UpdatePlanGetToken ==
  /\ pc = "ep_getToken"
  /\ \/ pc' = "ep_updatePlan" /\ UNCHANGED << Week, AsyncStorage, Route, Form, View, Locals, alert >>
     \/ UpdatePlanFailed
  /\ UNCHANGED Remote
  /\ UNCHANGED Search

\* update({ name: planName.trim() }).eq('id', id)
UpdatePlanName ==
  /\ pc = "ep_updatePlan"
  /\ \/ /\ plans' = [plans EXCEPT ![planId].name = Trim(name)]
        /\ pc' = "ep_updateDays"
        /\ UNCHANGED << Week, AsyncStorage, Route, Form, View, Locals, alert >>
     \/ UpdatePlanFailed /\ UNCHANGED plans
  /\ UNCHANGED rows
  /\ UNCHANGED Search

\* Promise.all of update({ day_name }).eq('day_order', oldDayName), one per
\* day: the updates of the days in done succeed, the others fail
UpdatePlanDays(done) ==
  /\ pc = "ep_updateDays"
  /\ done \subseteq DOMAIN dayExercises
  /\ rows' = [i \in DOMAIN rows |->
                IF rows[i].day_order \in done
                THEN [rows[i] EXCEPT !.day_name = Trim(dayNames[rows[i].day_order])]
                ELSE rows[i]]
  /\ IF done = DOMAIN dayExercises
     THEN /\ alert' = "Plan updated successfully"
          /\ saving' = FALSE
          /\ pc' = "idle"
          /\ UNCHANGED << Week, AsyncStorage, Route, name, dayNames, dayExercises, View, Locals >>
     ELSE UpdatePlanFailed
  /\ UNCHANGED plans
  /\ UNCHANGED Search

\* "OK" of the success alert: router.replace(`/plans/view/${id}`)
UpdatePlanOK ==
  /\ screen = "detail" /\ alert = "Plan updated successfully"
  /\ alert' = NoAlert
  /\ FreshForm
  /\ MountView(planId, FALSE)
  /\ UNCHANGED << Week, Remote, AsyncStorage, pc, Locals >>
  /\ UNCHANGED Search

(* ------------- AddExerciseScreen of a saved plan ([id]) ----------------- *)
\* dayNames[parseInt(dayOrder)] || dayExercises[0]?.day_name
currentDayName(dayOrder) ==
  IF NameOr(dayNames, dayOrder) # <<>> THEN dayNames[dayOrder]
  ELSE dayExercises[dayOrder][1].day_name

\* the "+" of a day of PlanDetailScreen; the screen it opens starts from
\* useState('3'), useState('10'), useState('60'):
\* router.push(`/plans/${id}/add-exercise?day=${currentDayName}&order=${dayOrder}`)
PlanDetailAddExercise(dayOrder) ==
  /\ screen = "detail" /\ Idle /\ ~loading /\ plan # None /\ ~saving
  /\ dayOrder \in DOMAIN dayExercises
  /\ IF currentDayName(dayOrder) = <<>>
     THEN /\ alert' = "Please enter a name for this day first"
          /\ UNCHANGED << screen, addExerciseDay, Fields >>
     ELSE /\ screen' = "addToPlan"
          /\ addExerciseDay' = dayOrder
          /\ sets' = <<"3">> /\ reps' = <<"1", "0">> /\ restSeconds' = <<"6", "0">>
          /\ UNCHANGED alert
  /\ UNCHANGED << Remote, AsyncStorage, planId, isEditMode, Form, initialDayNames,
                  initialDayExercises, pending, View, pc, Locals >>
  /\ UNCHANGED << searchQuery, foundExercises, debounceTimeout, searching, Library, Reload >>

\* the header's back: PlanDetailScreen regains focus and fetches again
AddToPlanBack ==
  /\ screen = "addToPlan" /\ Idle /\ ~saving
  /\ screen' = "detail"
  /\ addExerciseDay' = NoDay
  /\ loading' = TRUE
  /\ ResetFields
  /\ UNCHANGED << Remote, AsyncStorage, planId, isEditMode, Form, initialDayNames,
                  initialDayExercises, pending, plan, weeks, pc, Locals, alert >>
  /\ UNCHANGED << searchQuery, foundExercises, debounceTimeout, searching, Library, Reload >>

\* "Add to Plan" (disabled while saving or without a selection) up to the
\* first await of handleSave
handleSave ==
  /\ screen = "addToPlan" /\ Idle /\ ~saving
  /\ Len(rows) < MaxRows
  /\ LET setsNum == parseInt(sets)
         repsNum == parseInt(reps)
         restNum == parseInt(restSeconds)
     IN  IF isNaN(setsNum) \/ setsNum[1] < 1
         THEN alert' = "Please enter a valid number of sets" /\ UNCHANGED << saving, pc >>
         ELSE IF isNaN(repsNum) \/ repsNum[1] < 1
         THEN alert' = "Please enter a valid number of reps" /\ UNCHANGED << saving, pc >>
         ELSE IF isNaN(restNum) \/ restNum[1] < 0
         THEN alert' = "Please enter a valid rest time" /\ UNCHANGED << saving, pc >>
         ELSE /\ saving' = TRUE
              /\ pc' = "as_getToken"
              /\ UNCHANGED alert
  /\ UNCHANGED << Week, Remote, AsyncStorage, Route, name, dayNames, dayExercises, View, Locals >>
  /\ UNCHANGED Search

\* catch + finally of handleSave
AddToPlanFailed ==
  /\ alert' = "Failed to save exercise to plan"
  /\ saving' = FALSE
  /\ pc' = "idle"
  /\ UNCHANGED << Week, Remote, AsyncStorage, Route, name, dayNames, dayExercises, View, Locals >>

\* await getToken({ template: 'supabase' })
AddToPlanGetToken ==
  /\ pc = "as_getToken"
  /\ \/ /\ pc' = "as_insert"
        /\ UNCHANGED << Week, Remote, AsyncStorage, Route, Form, View, Locals, alert >>
     \/ AddToPlanFailed
  /\ UNCHANGED Search

\* insert({ plan_id, exercise_id, day_name: dayName, day_order: dayOrder,
\* sets, reps, rest_seconds }): the day name is the route parameter, which is
\* currentDayName of the PlanDetailScreen that stays mounted underneath
AddToPlanInsert(exercise) ==
  /\ pc = "as_insert"
  /\ \/ /\ rows' = Append(rows, Row(planId, NULL, addExerciseDay,
                                    currentDayName(addExerciseDay), exercise.id,
                                    parseInt(sets)[1], parseInt(reps)[1],
                                    parseInt(restSeconds)[1]))
        /\ alert' = "Exercise added to plan"
        /\ saving' = FALSE
        /\ pc' = "idle"
        /\ UNCHANGED << Week, plans, AsyncStorage, Route, name, dayNames, dayExercises,
                        View, Locals >>
     \/ AddToPlanFailed
  /\ UNCHANGED Search

\* "OK" of the success alert: router.replace(`/plans/${planId}`); a new
\* PlanDetailScreen mounts and fetches
AddToPlanOK ==
  /\ screen = "addToPlan" /\ alert = "Exercise added to plan"
  /\ alert' = NoAlert
  /\ screen' = "detail"
  /\ addExerciseDay' = NoDay
  /\ plan' = None /\ loading' = TRUE
  /\ FreshForm
  /\ ResetFields
  /\ UNCHANGED << Remote, AsyncStorage, planId, isEditMode, initialDayNames,
                  initialDayExercises, pending, weeks, pc, Locals >>
  /\ UNCHANGED << searchQuery, foundExercises, debounceTimeout, searching, Library, Reload >>

(* ------------------ AddExerciseScreen: the search ---------------------- *)
\* what the user types into the search input
SearchInputs == { <<>>, <<" ">>, <<"b", "e", "n">>, <<"B">>, <<"_">> }

\* case folding of the characters in use
LowerCase(c) ==
  CASE c = "B" -> "b" [] c = "S" -> "s" [] c = "P" -> "p" [] c = "R" -> "r"
    [] OTHER -> c

\* name ILIKE pattern: % matches any run of characters, _ any one character,
\* every other character itself without regard to case
RECURSIVE Like(_, _)
Like(pattern, text) ==
  IF pattern = <<>> THEN text = <<>>
  ELSE IF Head(pattern) = "%"
       THEN Like(Tail(pattern), text) \/ (text # <<>> /\ Like(pattern, Tail(text)))
       ELSE /\ text # <<>>
            /\ (Head(pattern) = "_" \/ LowerCase(Head(pattern)) = LowerCase(Head(text)))
            /\ Like(Tail(pattern), Tail(text))

\* the characters in use, in code order
Alphabet ==
  << " ", "B", "D", "P", "R", "S", "_", "a", "b", "c", "e", "h", "i", "k", "n", "o", "p",
     "q", "r", "s", "t", "u", "w" >>
CharCode(c) == CHOOSE i \in DOMAIN Alphabet : Alphabet[i] = c

\* a sorts before b
RECURSIVE NameLess(_, _)
NameLess(a, b) ==
  IF a = <<>> THEN b # <<>>
  ELSE IF b = <<>> THEN FALSE
  ELSE IF Head(a) = Head(b) THEN NameLess(Tail(a), Tail(b))
  ELSE CharCode(Head(a)) < CharCode(Head(b))

\* order('name')
RECURSIVE OrderByName(_)
OrderByName(es) ==
  IF es = <<>> THEN <<>>
  ELSE LET i == CHOOSE x \in DOMAIN es : \A y \in DOMAIN es : ~NameLess(es[y].name, es[x].name)
           Others(k) == IF k < i THEN es[k] ELSE es[k + 1]
       IN  << es[i] >> \o OrderByName([k \in 1 .. (Len(es) - 1) |-> Others(k)])

\* select('id, name').ilike('name', `%${searchQuery}%`).order('name').limit(10)
ilike(query) ==
  LET Matches(e) == Like(<<"%">> \o query \o <<"%">>, e.name)
      data == SelectSeq(OrderByName(catalog), Matches)
  IN  SubSeq(data, 1, IF Len(data) < SearchLimit THEN Len(data) ELSE SearchLimit)

\* onChangeText={setSearchQuery}: the effect's cleanup clears the pending
\* timeout and the effect sets a new one for the new query
setSearchQuery(text) ==
  /\ screen = "add" /\ alert = NoAlert
  /\ text # searchQuery
  /\ searchQuery' = text
  /\ debounceTimeout' = Some(text)
  /\ UNCHANGED << foundExercises, searching >>
  /\ UNCHANGED << Fields, Library, Reload >>
  /\ UNCHANGED << Week, Remote, AsyncStorage, Route, Form, View, pc, Locals, alert >>

\* the timeout fires: searchExercises up to its first await
searchExercises ==
  /\ debounceTimeout # None
  /\ LET query == debounceTimeout[1]
     IN  IF Trim(query) = <<>>
         THEN /\ foundExercises' = <<>>
              /\ UNCHANGED searching
         ELSE /\ Cardinality(searching) < MaxSearches
              /\ searching' = searching \cup {[query |-> query, pc |-> "getToken"]}
              /\ UNCHANGED foundExercises
  /\ debounceTimeout' = None
  /\ UNCHANGED searchQuery
  /\ UNCHANGED << Fields, Library, Reload >>
  /\ UNCHANGED << Week, Remote, AsyncStorage, Route, Form, View, pc, Locals, alert >>

\* await getToken({ template: 'supabase' }) of a search: a failure is logged
searchGetToken(r) ==
  /\ r \in searching /\ r.pc = "getToken"
  /\ \/ searching' = (searching \ {r}) \cup {[r EXCEPT !.pc = "select"]}
     \/ searching' = searching \ {r}
  /\ UNCHANGED << searchQuery, foundExercises, debounceTimeout >>
  /\ UNCHANGED << Fields, Library, Reload >>
  /\ UNCHANGED << Week, Remote, AsyncStorage, Route, Form, View, pc, Locals, alert >>

\* the response of a search arrives: setExercises(data || []), or the error
\* is logged
searchSelect(r) ==
  /\ r \in searching /\ r.pc = "select"
  /\ searching' = searching \ {r}
  /\ \/ foundExercises' = ilike(r.query)
     \/ UNCHANGED foundExercises
  /\ UNCHANGED << searchQuery, debounceTimeout >>
  /\ UNCHANGED << Fields, Library, Reload >>
  /\ UNCHANGED << Week, Remote, AsyncStorage, Route, Form, View, pc, Locals, alert >>

(* ------------------------ exercise library ----------------------------- *)
\* most rows the table exercises holds
MaxCatalog == 5

\* what the user types into the name field of NewExercise
ExerciseNameInputs ==
  { <<>>, <<" ">>, <<"D", "i", "p">>, <<"D", "i", "p", " ">>, <<"R", "o", "w">>,
    <<"B", "e", "n", "t", " ", "R", "o", "w">> }

\* the menu's "Exercise Library": router.push('/exercises')
OpenExercises ==
  /\ screen = "plans" /\ Idle
  /\ screen' = "exercises"
  /\ UNCHANGED << Week, Remote, AsyncStorage, planId, isEditMode, Form, View, pc, Locals, alert >>
  /\ UNCHANGED << searchQuery, foundExercises, debounceTimeout, searching, Fields, Library, Reload >>

\* the menu's "My Plans": router.push('/plans')
OpenPlans ==
  /\ screen = "exercises" /\ Idle
  /\ screen' = "plans"
  /\ UNCHANGED << Week, Remote, AsyncStorage, planId, isEditMode, Form, View, pc, Locals, alert >>
  /\ UNCHANGED << searchQuery, foundExercises, debounceTimeout, searching, Fields, Library, Reload >>

\* the "+" of the library: router.push('/exercises/new'); the tab screen
\* keeps its state between visits
OpenNewExercise ==
  /\ screen = "exercises" /\ Idle
  /\ screen' = "newExercise"
  /\ UNCHANGED << Week, Remote, AsyncStorage, planId, isEditMode, Form, View, pc, Locals, alert >>
  /\ UNCHANGED << searchQuery, foundExercises, debounceTimeout, searching, Fields, Library, Reload >>

\* headerLeft of NewExercise: router.push('/exercises')
NewExerciseBack ==
  /\ screen = "newExercise" /\ Idle
  /\ screen' = "exercises"
  /\ UNCHANGED << Week, Remote, AsyncStorage, planId, isEditMode, Form, View, pc, Locals, alert >>
  /\ UNCHANGED << searchQuery, foundExercises, debounceTimeout, searching, Fields, Library, Reload >>

\* onChangeText={setName} of NewExercise (not while it saves)
setExerciseName(text) ==
  /\ screen = "newExercise" /\ Idle
  /\ text # exerciseName
  /\ exerciseName' = text
  /\ UNCHANGED << Week, Remote, AsyncStorage, Route, Form, View, pc, Locals, alert >>
  /\ UNCHANGED << searchQuery, foundExercises, debounceTimeout, searching, Fields, catalog,
                  error, Reload >>

\* handleSubmit without the check of the name
handleSubmitAnyName ==
  /\ screen = "newExercise" /\ Idle
  /\ error' = None
  /\ pc' = "ne_getToken"
  /\ UNCHANGED << Week, Remote, AsyncStorage, Route, Form, View, Locals, alert >>
  /\ UNCHANGED << searchQuery, foundExercises, debounceTimeout, searching, Fields, catalog,
                  exerciseName, Reload >>

\* "Save Exercise" (disabled while saving) up to the first await of
\* handleSubmit
handleSubmit ==
  /\ screen = "newExercise" /\ Idle
  /\ IF Trim(exerciseName) = <<>>
     THEN /\ error' = Some("Exercise name is required")
          /\ UNCHANGED pc
     ELSE /\ error' = None
          /\ pc' = "ne_getToken"
  /\ UNCHANGED << Week, Remote, AsyncStorage, Route, Form, View, Locals, alert >>
  /\ UNCHANGED << searchQuery, foundExercises, debounceTimeout, searching, Fields, catalog,
                  exerciseName, Reload >>

\* catch + finally of handleSubmit
SubmitFailed ==
  /\ error' = Some("Failed to save exercise. Please try again.")
  /\ pc' = "idle"
  /\ UNCHANGED << screen, catalog >>

\* await getToken({ template: 'supabase' })
SubmitGetToken ==
  /\ pc = "ne_getToken"
  /\ \/ pc' = "ne_insert" /\ UNCHANGED << screen, catalog, error >>
     \/ SubmitFailed
  /\ UNCHANGED << Week, Remote, AsyncStorage, planId, isEditMode, Form, View, Locals, alert >>
  /\ UNCHANGED << searchQuery, foundExercises, debounceTimeout, searching, Fields,
                  exerciseName, Reload >>

\* insert([{ name: name.trim(), ... }]) into exercises, whose names are
\* unique in the database: a name that exists is refused with code 23505,
\* any insert can fail otherwise; on success router.replace('/exercises')
SubmitInsert ==
  /\ pc = "ne_insert"
  /\ IF \E i \in DOMAIN catalog : catalog[i].name = Trim(exerciseName)
     THEN \/ /\ error' = Some("An exercise with this name already exists")
             /\ pc' = "idle"
             /\ UNCHANGED << screen, catalog >>
          \/ SubmitFailed
     ELSE \/ /\ Len(catalog) < MaxCatalog
             /\ catalog' = Append(catalog, [id |-> Len(catalog) + 1, name |-> Trim(exerciseName)])
             /\ screen' = "exercises"
             /\ pc' = "idle"
             /\ UNCHANGED error
          \/ SubmitFailed
  /\ UNCHANGED << Week, Remote, AsyncStorage, planId, isEditMode, Form, View, Locals, alert >>
  /\ UNCHANGED << searchQuery, foundExercises, debounceTimeout, searching, Fields,
                  exerciseName, Reload >>

LibraryNext ==
  \/ OpenExercises
  \/ OpenPlans
  \/ OpenNewExercise
  \/ NewExerciseBack
  \/ \E text \in ExerciseNameInputs : setExerciseName(text)
  \/ handleSubmit
  \/ SubmitGetToken
  \/ SubmitInsert

SpecLibrary == Init /\ [][LibraryNext]_vars

(* ---------------- WeekViewScreen and its DayDetailScreen ---------------- *)
\* the routes /plans/view/week/[number] and /plans/view/[id]/[week]/[day]

\* the loadData calls in flight at once, over both screens
MaxReloads == 2

\* a loadData call that has not returned: the screen whose focus effect
\* started it, the effect's isMounted, and where the call stands
ReloadOf(of, n) == [of |-> of, n |-> n, isMounted |-> TRUE, pc |-> "fetch"]

\* the effect's cleanup, run when the screen loses focus: isMounted = false
Cleanup(of, rs) ==
  { IF r.of = of THEN [r EXCEPT !.isMounted = FALSE] ELSE r : r \in rs }

\* the focus effect of screen `of` runs: isMounted and isLoading are new
\* locals of this run, so loadData passes its guard and starts a load
Focus(of, rs) ==
  /\ Cardinality(rs) < MaxReloads
  /\ LET n == CHOOSE k \in 1 .. MaxReloads : \A r \in rs : r.n # k
     IN  reloads' = rs \cup { ReloadOf(of, n) }

\* the screen `of` is removed from the stack: the cleanup runs, and what its
\* loads set afterwards is set on a component that is gone
Unmount(of, rs) == { r \in rs : r.of # of }

RECURSIVE processedDays(_)
\* fetchWeekDays: one entry per day_name, in the order of first occurrence,
\* counting the rows that carry an exercise
processedDays(daysData) ==
  IF daysData = <<>> THEN <<>>
  ELSE LET day == daysData[Len(daysData)]
           dayMap == processedDays(SubSeq(daysData, 1, Len(daysData) - 1))
           count == IF day.exercise_id # NULL THEN 1 ELSE 0
       IN  IF \E i \in DOMAIN dayMap : dayMap[i].day_name = day.day_name
           THEN [ i \in DOMAIN dayMap |->
                    IF dayMap[i].day_name = day.day_name
                    THEN [dayMap[i] EXCEPT !.exercise_count = @ + count]
                    ELSE dayMap[i] ]
           ELSE Append(dayMap, [day_name |-> day.day_name, day_order |-> day.day_order,
                                exercise_count |-> count])

\* fetchDayExercises: the rows of the day in order of creation that carry an
\* exercise
filteredExercises(p, dn) ==
  LET OfDay(r) == /\ r.plan_id = p /\ r.week_number = weekNumber
                  /\ r.day_name = dn /\ r.exercise_id # NULL
  IN  SelectSeq(rows, OfDay)

\* ViewPlanScreen out of edit mode, a press on the card of week weekNumber:
\* router.push; WeekViewScreen mounts and its focus effect starts a load
OpenWeekView ==
  /\ screen = "view" /\ Idle /\ ~loading
  /\ plan # None /\ ~isEditMode /\ weekNumber \in weeks
  /\ screen' = "weekView"
  /\ weekDays' = <<>> /\ weekReady' = FALSE
  /\ Focus("weekView", reloads)
  /\ UNCHANGED << viewDayName, dayViewExercises, dayReady >>
  /\ UNCHANGED << Week, Remote, AsyncStorage, planId, isEditMode, Form, View, pc, Locals, alert >>
  /\ UNCHANGED << searchQuery, foundExercises, debounceTimeout, searching, Fields, Library >>

\* fetchWeekDays of the load r settles: setDays(processedDays), or the error
\* is logged (fetchPlanDetails, awaited with it, sets the header's back
\* title only)
fetchWeekDays(r) ==
  /\ r \in reloads /\ r.of = "weekView" /\ r.pc = "fetch"
  /\ \/ \E daysData \in WeekRowOrders(planId) : weekDays' = processedDays(daysData)
     \/ UNCHANGED weekDays
  /\ reloads' = (reloads \ {r}) \cup { [r EXCEPT !.pc = "after"] }
  /\ UNCHANGED << weekReady, viewDayName, dayViewExercises, dayReady >>
  /\ UNCHANGED << Week, Remote, AsyncStorage, Route, Form, View, pc, Locals, alert >>
  /\ UNCHANGED << searchQuery, foundExercises, debounceTimeout, searching, Fields, Library >>

\* fetchDayExercises of the load r settles: setExercises(filteredExercises),
\* or the error is logged
fetchDayExercisesOfWeek(r) ==
  /\ r \in reloads /\ r.of = "weekDay" /\ r.pc = "fetch"
  /\ \/ dayViewExercises' = filteredExercises(planId, viewDayName)
     \/ UNCHANGED dayViewExercises
  /\ reloads' = (reloads \ {r}) \cup { [r EXCEPT !.pc = "after"] }
  /\ UNCHANGED << weekDays, weekReady, viewDayName, dayReady >>
  /\ UNCHANGED << Week, Remote, AsyncStorage, Route, Form, View, pc, Locals, alert >>
  /\ UNCHANGED << searchQuery, foundExercises, debounceTimeout, searching, Fields, Library >>

\* loadData after its await: if (isMounted) setReady(true); finally
\* isLoading = false
loadData(r) ==
  /\ r \in reloads /\ r.pc = "after"
  /\ reloads' = reloads \ {r}
  /\ weekReady' = IF r.of = "weekView" /\ r.isMounted THEN TRUE ELSE weekReady
  /\ dayReady' = IF r.of = "weekDay" /\ r.isMounted THEN TRUE ELSE dayReady
  /\ UNCHANGED << weekDays, viewDayName, dayViewExercises >>
  /\ UNCHANGED << Week, Remote, AsyncStorage, Route, Form, View, pc, Locals, alert >>
  /\ UNCHANGED << searchQuery, foundExercises, debounceTimeout, searching, Fields, Library >>

\* handleDayPress(day.day_name), on a card that is rendered when ready:
\* router.push; WeekViewScreen loses focus, DayDetailScreen mounts and its
\* focus effect starts a load
handleDayPress(i) ==
  /\ screen = "weekView" /\ Idle /\ weekReady
  /\ i \in DOMAIN weekDays
  /\ screen' = "weekDay"
  /\ viewDayName' = weekDays[i].day_name
  /\ dayViewExercises' = <<>> /\ dayReady' = FALSE
  /\ Focus("weekDay", Cleanup("weekView", reloads))
  /\ UNCHANGED << weekDays, weekReady >>
  /\ UNCHANGED << Week, Remote, AsyncStorage, planId, isEditMode, Form, View, pc, Locals, alert >>
  /\ UNCHANGED << searchQuery, foundExercises, debounceTimeout, searching, Fields, Library >>

\* the "+" of DayDetailScreen, rendered whether ready or not: router.push of
\* the add-exercise route; DayDetailScreen loses focus
DayViewAddExercise ==
  /\ screen = "weekDay" /\ Idle
  /\ screen' = "weekDayAdd"
  /\ reloads' = Cleanup("weekDay", reloads)
  /\ UNCHANGED << weekDays, weekReady, viewDayName, dayViewExercises, dayReady >>
  /\ UNCHANGED << Week, Remote, AsyncStorage, planId, isEditMode, Form, View, pc, Locals, alert >>
  /\ UNCHANGED << searchQuery, foundExercises, debounceTimeout, searching, Fields, Library >>

\* the header's back on the add-exercise route: DayDetailScreen has the focus
\* again, its focus effect runs: setReady(false) and a load
DayViewAddExerciseBack ==
  /\ screen = "weekDayAdd" /\ Idle
  /\ screen' = "weekDay"
  /\ dayReady' = FALSE
  /\ Focus("weekDay", reloads)
  /\ UNCHANGED << weekDays, weekReady, viewDayName, dayViewExercises >>
  /\ UNCHANGED << Week, Remote, AsyncStorage, planId, isEditMode, Form, View, pc, Locals, alert >>
  /\ UNCHANGED << searchQuery, foundExercises, debounceTimeout, searching, Fields, Library >>

\* the header's back on DayDetailScreen: the screen unmounts, WeekViewScreen
\* has the focus again, its focus effect runs: setReady(false) and a load
DayViewBack ==
  /\ screen = "weekDay" /\ Idle
  /\ screen' = "weekView"
  /\ weekReady' = FALSE
  /\ Focus("weekView", Unmount("weekDay", reloads))
  /\ UNCHANGED << weekDays, viewDayName, dayViewExercises, dayReady >>
  /\ UNCHANGED << Week, Remote, AsyncStorage, planId, isEditMode, Form, View, pc, Locals, alert >>
  /\ UNCHANGED << searchQuery, foundExercises, debounceTimeout, searching, Fields, Library >>

\* the header's back on WeekViewScreen: the screen unmounts and ViewPlanScreen
\* has the focus again
WeekViewBack ==
  /\ screen = "weekView" /\ Idle
  /\ screen' = "view"
  /\ reloads' = Unmount("weekView", reloads)
  /\ UNCHANGED << weekDays, weekReady, viewDayName, dayViewExercises, dayReady >>
  /\ UNCHANGED << Week, Remote, AsyncStorage, planId, isEditMode, Form, View, pc, Locals, alert >>
  /\ UNCHANGED << searchQuery, foundExercises, debounceTimeout, searching, Fields, Library >>

ReloadNext ==
  \/ OpenWeekView
  \/ \E r \in reloads : fetchWeekDays(r)
  \/ \E r \in reloads : fetchDayExercisesOfWeek(r)
  \/ \E r \in reloads : loadData(r)
  \/ \E i \in 1 .. NumDays : handleDayPress(i)
  \/ DayViewAddExercise
  \/ DayViewAddExerciseBack
  \/ DayViewBack
  \/ WeekViewBack

(* ---------------------------- the system ------------------------------- *)
NewPlanNext(maxPlans) ==
  \/ OpenNewPlan
  \/ \E text \in PlanNameInputs : setName(text)
  \/ \E index \in NewPlanDays, text \in DayNameInputs : setDayNames(index, text)
  \/ \E day \in NewPlanDays, exercise \in ExerciseInputs : checkPendingExercise(day, exercise)
  \/ handleBack
  \/ handleSavePlan(maxPlans)
  \/ SavePlanGetToken
  \/ SavePlanSelectCurrent
  \/ SavePlanInsertPlan
  \/ SavePlanInsertRows

ViewNext ==
  \/ \E p \in PlanIds : OpenPlan(p)
  \/ fetchPlanDetails
  \/ ViewBack
  \/ ToggleEditMode
  \/ handleChangePlan
  \/ ChangePlanGetToken
  \/ ChangePlanClearPlans
  \/ ChangePlanSetCurrent
  \/ ChangePlanFirstDay
  \/ ChangePlanClearDays
  \/ ChangePlanTarget
  \/ ChangePlanSetDay
  \/ ChangePlanVerify
  \/ OpenDay
  \/ fetchDayExercises
  \/ DayBack
  \/ DayChangePlan
  \/ DayChangePlanGetToken
  \/ DayChangePlanClearPlans
  \/ DayChangePlanClearDays
  \/ DayChangePlanSetCurrent
  \/ DayChangePlanFirstDay
  \/ DayChangePlanSetDays

WeekNext ==
  \/ AddWeek
  \/ EditWeek
  \/ loadDayNames
  \/ loadInitialData
  \/ fetchWeekData
  \/ \E dayNumber \in WeekDays, text \in DayNameInputs : handleDayNameChange(dayNumber, text)
  \/ \E dayNumber \in WeekDays : OpenAddExercise(dayNumber)
  \/ AddExerciseBack
  \/ ValidFieldsNext
  \/ \E exercise \in ExerciseInputs : handleAddExercise(exercise)
  \/ handleSaveWeek
  \/ SaveWeekGetToken
  \/ SaveWeekDelete
  \/ SaveWeekInsert
  \/ WeekBack
  \/ Discard

PlanDetailNext ==
  \/ \E p \in PlanIds : OpenPlanDetail(p)
  \/ PlanDetailFetch
  \/ PlanDetailBack
  \/ \E text \in PlanNameInputs : setPlanName(text)
  \/ \E dayOrder \in NewPlanDays \cup WeekDays, text \in DayNameInputs :
        PlanDetailSetDayNames(dayOrder, text)
  \/ PlanDetailSavePlan
  \/ UpdatePlanGetToken
  \/ UpdatePlanName
  \/ \E done \in SUBSET (NewPlanDays \cup WeekDays) : UpdatePlanDays(done)
  \/ UpdatePlanOK

AddToPlanNext ==
  \/ \E dayOrder \in NewPlanDays \cup WeekDays : PlanDetailAddExercise(dayOrder)
  \/ AddToPlanBack
  \/ handleSave
  \/ AddToPlanGetToken
  \/ \E exercise \in ExerciseInputs : AddToPlanInsert(exercise)
  \/ AddToPlanOK

SearchNext ==
  \/ \E text \in SearchInputs : setSearchQuery(text)
  \/ searchExercises
  \/ \E r \in searching : searchGetToken(r)
  \/ \E r \in searching : searchSelect(r)

Next ==
  \/ DismissAlert
  \/ NewPlanNext(MaxPlans)
  \/ ViewNext
  \/ WeekNext
  \/ PlanDetailNext
  \/ FieldsNext
  \/ AddToPlanNext
  \/ SearchNext
  \/ LibraryNext
  \/ ReloadNext

Spec == Init /\ [][Next]_vars

(* ------------------ the save flows: new plan and week ------------------ *)
NextSave ==
  \/ DismissAlert
  \/ NewPlanNext(MaxSavePlans)
  \/ \E p \in PlanIds : OpenPlan(p)
  \/ fetchPlanDetails
  \/ ViewBack
  \/ ToggleEditMode
  \/ WeekNext

SpecSave == Init /\ [][NextSave]_vars

(* --------------- the current plan: new plan and activation ------------- *)
NextPlans ==
  \/ DismissAlert
  \/ NewPlanNext(MaxPlans)
  \/ ViewNext

SpecPlans == Init /\ [][NextPlans]_vars

(* ------------------- the forms that name a plan ------------------------ *)
NextForms ==
  \/ DismissAlert
  \/ NewPlanNext(MaxPlans)
  \/ PlanDetailNext
  \/ fetchPlanDetails
  \/ ViewBack

SpecForms == Init /\ [][NextForms]_vars
(* ------------------- change detection on its inputs -------------------- *)
\* the values of type { [key: number]: string } over the days of a week
NameMaps == UNION { [D -> DayNameInputs] : D \in SUBSET WeekDays }

\* the values of type DayExercise[] of bounded length
ExerciseLists == UNION { [1 .. n -> DiffExercises] : n \in 0 .. MaxExPerDay }

\* the values of type { [key: number]: DayExercise[] } over the days of a week
ExerciseMaps == UNION { [D -> ExerciseLists] : D \in SUBSET WeekDays }

\* a week screen of a plan, its loads settled, holding any draft and any
\* snapshot of these types
InitDiff ==
  /\ plans = << PlanRow(<<"S">>, TRUE) >>
  /\ rows = <<>>
  /\ AsyncStorage = StoreInit
  /\ screen = "week"
  /\ planId = 1
  /\ isEditMode \in BOOLEAN
  /\ name = <<>>
  /\ dayNames \in NameMaps
  /\ initialDayNames \in NameMaps
  /\ dayExercises \in ExerciseMaps
  /\ initialDayExercises \in ExerciseMaps
  /\ pending = {}
  /\ addExerciseDay = NoDay
  /\ saving = FALSE
  /\ plan = None
  /\ weeks = {}
  /\ loading = FALSE
  /\ pc = "idle"
  /\ shouldBeCurrent = FALSE
  /\ firstDay = <<>>
  /\ targetDay = NoRow
  /\ alert = NoAlert
  /\ FreshSearch

NextDiff ==
  \/ WeekBack
  \/ DismissAlert
  \/ Discard

SpecDiff == InitDiff /\ [][NextDiff]_vars
(* ----------------------- the exercise search --------------------------- *)
\* the searches a request can be in flight for
SearchRequests ==
  { [query |-> q, pc |-> c] : q \in SearchInputs, c \in {"getToken", "select"} }

\* a mounted AddExerciseScreen of a plan's week: the search effect has set
\* its first timeout
InitSearch ==
  /\ plans = << PlanRow(<<"S">>, TRUE) >>
  /\ rows = <<>>
  /\ AsyncStorage = StoreInit
  /\ screen = "add"
  /\ planId = 1
  /\ isEditMode = FALSE
  /\ name = <<>>
  /\ dayNames = EmptyMap
  /\ dayExercises = EmptyMap
  /\ initialDayNames = EmptyMap
  /\ initialDayExercises = EmptyMap
  /\ pending = {}
  /\ addExerciseDay = 1
  /\ saving = FALSE
  /\ plan = None
  /\ weeks = {}
  /\ loading = FALSE
  /\ pc = "idle"
  /\ shouldBeCurrent = FALSE
  /\ firstDay = <<>>
  /\ targetDay = NoRow
  /\ alert = NoAlert
  /\ searchQuery = <<>>
  /\ foundExercises = <<>>
  /\ debounceTimeout = Some(<<>>)
  /\ searching = {}
  /\ InitFields
  /\ InitLibrary
  /\ InitReload

NextSearch ==
  \/ \E text \in SearchInputs : setSearchQuery(text)
  \/ searchExercises
  \/ \E r \in SearchRequests : searchGetToken(r)
  \/ \E r \in SearchRequests : searchSelect(r)

SpecSearch == InitSearch /\ [][NextSearch]_vars
(* ------------- an edit session on a week saved elsewhere --------------- *)
\* the drafts of exercises a week may have been saved from
SavedExerciseMaps ==
  UNION { [D -> { <<e>> : e \in ExerciseInputs }] : D \in SUBSET WeekDays }

\* the rows handleSaveWeek wrote for such a week of plan 1 from another
\* installation of the app, whose draft store this one does not share
SavedWeeks ==
  { daysToSave(1, dn, de) : dn \in NameMaps \ {EmptyMap}, de \in SavedExerciseMaps }

\* the plan is shown in edit mode, its week saved, the draft store empty
InitEdit ==
  /\ plans = << PlanRow(<<"S">>, TRUE) >>
  /\ rows \in SavedWeeks
  /\ AsyncStorage = StoreInit
  /\ screen = "view"
  /\ planId = 1
  /\ isEditMode = TRUE
  /\ name = <<>>
  /\ dayNames = EmptyMap
  /\ dayExercises = EmptyMap
  /\ initialDayNames = EmptyMap
  /\ initialDayExercises = EmptyMap
  /\ pending = {}
  /\ addExerciseDay = NoDay
  /\ saving = FALSE
  /\ plan = None
  /\ weeks = {}
  /\ loading = TRUE
  /\ pc = "idle"
  /\ shouldBeCurrent = FALSE
  /\ firstDay = <<>>
  /\ targetDay = NoRow
  /\ alert = NoAlert
  /\ FreshSearch

NextEdit ==
  \/ DismissAlert
  \/ fetchPlanDetails
  \/ EditWeek
  \/ loadDayNames
  \/ loadInitialData
  \/ fetchWeekData
  \/ \E dayNumber \in WeekDays, text \in DayNameInputs : handleDayNameChange(dayNumber, text)
  \/ \E dayNumber \in WeekDays : OpenAddExercise(dayNumber)
  \/ AddExerciseBack
  \/ ValidFieldsNext
  \/ \E exercise \in ExerciseInputs : handleAddExercise(exercise)
  \/ WeekBack
  \/ Discard

SpecEdit == InitEdit /\ [][NextEdit]_vars

(* ------------- a week is saved and opened again, unchanged ------------- *)
\* the day names a draft can hold: typed names, and a name typed and erased
TypedNameMaps ==
  UNION { [D -> DayNameInputs \cup {<<>>}] : D \in SUBSET WeekDays }

\* the store entry a draft map has after its mutations: none before the first
StoredDraft(m) == IF m = EmptyMap THEN None ELSE Some(JSONstringify(m))

\* a loaded week screen in create mode of a plan without rows, holding a
\* draft that can be saved, the store holding the same draft
InitResave ==
  /\ plans = << PlanRow(<<"S">>, TRUE) >>
  /\ rows = <<>>
  /\ dayNames \in TypedNameMaps \ {EmptyMap}
  /\ dayExercises \in SavedExerciseMaps
  /\ AsyncStorage = [ StoreInit EXCEPT !.DayNames[1] = StoredDraft(dayNames),
                                       !.Exercises[1] = StoredDraft(dayExercises) ]
  /\ screen = "week"
  /\ planId = 1
  /\ isEditMode = FALSE
  /\ name = <<>>
  /\ initialDayNames = EmptyMap
  /\ initialDayExercises = EmptyMap
  /\ pending = {}
  /\ addExerciseDay = NoDay
  /\ saving = FALSE
  /\ plan = None
  /\ weeks = {}
  /\ loading = FALSE
  /\ pc = "idle"
  /\ shouldBeCurrent = FALSE
  /\ firstDay = <<>>
  /\ targetDay = NoRow
  /\ alert = NoAlert
  /\ FreshSearch

\* saving, and opening the saved week again: no step changes a draft
NextResave ==
  \/ DismissAlert
  \/ handleSaveWeek
  \/ SaveWeekGetToken
  \/ SaveWeekDelete
  \/ SaveWeekInsert
  \/ fetchPlanDetails
  \/ EditWeek
  \/ loadDayNames
  \/ loadInitialData
  \/ fetchWeekData
  \/ WeekBack
  \/ Discard

SpecResave == InitResave /\ [][NextResave]_vars

(* ------------------ drafts and the draft store ------------------------- *)
\* setName when the effect's setItem throws: the error is logged
setNameUnsaved(text) ==
  /\ screen = "new" /\ Idle
  /\ text # name
  /\ name' = text
  /\ UNCHANGED << Week, Remote, AsyncStorage, Route, dayNames, dayExercises, saving, View,
                  pc, Locals, alert >>
  /\ UNCHANGED Search

\* setDayNames when the effect's setItem throws: the error is logged
setDayNamesUnsaved(index, text) ==
  /\ screen = "new" /\ Idle
  /\ ~(index \in DOMAIN dayNames /\ dayNames[index] = text)
  /\ dayNames' = Put(dayNames, index, text)
  /\ UNCHANGED << Week, Remote, AsyncStorage, Route, name, dayExercises, saving, View,
                  pc, Locals, alert >>
  /\ UNCHANGED Search

\* handleDayNameChange when setItem throws: the state is set before the
\* write and the error is logged
handleDayNameChangeUnsaved(dayNumber, text) ==
  /\ screen = "week" /\ Idle /\ ~loading /\ ~saving
  /\ NameOr(dayNames, dayNumber) # text
  /\ dayNames' = Put(dayNames, dayNumber, text)
  /\ UNCHANGED << Week, Remote, AsyncStorage, Route, name, dayExercises, saving, View,
                  pc, Locals, alert >>
  /\ UNCHANGED Search

\* the plans list of an account that has one plan without rows
InitDrafts ==
  /\ plans = << PlanRow(<<"S">>, TRUE) >>
  /\ rows = <<>>
  /\ AsyncStorage = StoreInit
  /\ screen = "plans"
  /\ planId = NoPlan
  /\ isEditMode = FALSE
  /\ name = <<>>
  /\ dayNames = EmptyMap
  /\ dayExercises = EmptyMap
  /\ initialDayNames = EmptyMap
  /\ initialDayExercises = EmptyMap
  /\ pending = {}
  /\ addExerciseDay = NoDay
  /\ saving = FALSE
  /\ plan = None
  /\ weeks = {}
  /\ loading = FALSE
  /\ pc = "idle"
  /\ shouldBeCurrent = FALSE
  /\ firstDay = <<>>
  /\ targetDay = NoRow
  /\ alert = NoAlert
  /\ FreshSearch

\* authoring without a save and without a discard
NextDrafts ==
  \/ DismissAlert
  \/ OpenNewPlan
  \/ \E text \in PlanNameInputs : setName(text)
  \/ \E index \in NewPlanDays, text \in DayNameInputs : setDayNames(index, text)
  \/ \E day \in NewPlanDays, exercise \in ExerciseInputs : checkPendingExercise(day, exercise)
  \/ \E p \in PlanIds : OpenPlan(p)
  \/ fetchPlanDetails
  \/ ViewBack
  \/ AddWeek
  \/ loadDayNames
  \/ fetchWeekData
  \/ \E dayNumber \in WeekDays, text \in DayNameInputs : handleDayNameChange(dayNumber, text)
  \/ \E dayNumber \in WeekDays : OpenAddExercise(dayNumber)
  \/ AddExerciseBack
  \/ ValidFieldsNext
  \/ \E exercise \in ExerciseInputs : handleAddExercise(exercise)
  \/ WeekBack

SpecDrafts == InitDrafts /\ [][NextDrafts]_vars

\* the same, where a write to the draft store can fail
NextWrites ==
  \/ NextDrafts
  \/ \E text \in PlanNameInputs : setNameUnsaved(text)
  \/ \E index \in NewPlanDays, text \in DayNameInputs : setDayNamesUnsaved(index, text)
  \/ \E dayNumber \in WeekDays, text \in DayNameInputs :
        handleDayNameChangeUnsaved(dayNumber, text)

SpecWrites == InitDrafts /\ [][NextWrites]_vars

(* ------------- assignments: adding, renaming and saving ---------------- *)
\* the plans list of an account whose one plan was saved by the new-plan
\* screen with day 0 named "A" and one exercise
InitAdd ==
  /\ plans = << PlanRow(<<"S">>, TRUE) >>
  /\ rows = PlanInserts(1, Put(EmptyMap, 0, <<"A", " ">>),
                        Put(EmptyMap, 0, << CHOOSE e \in ExerciseInputs : TRUE >>))
  /\ AsyncStorage = StoreInit
  /\ screen = "plans"
  /\ planId = NoPlan
  /\ isEditMode = FALSE
  /\ name = <<>>
  /\ dayNames = EmptyMap
  /\ dayExercises = EmptyMap
  /\ initialDayNames = EmptyMap
  /\ initialDayExercises = EmptyMap
  /\ pending = {}
  /\ addExerciseDay = NoDay
  /\ saving = FALSE
  /\ plan = None
  /\ weeks = {}
  /\ loading = FALSE
  /\ pc = "idle"
  /\ shouldBeCurrent = FALSE
  /\ firstDay = <<>>
  /\ targetDay = NoRow
  /\ alert = NoAlert
  /\ FreshSearch

NextAdd ==
  \/ DismissAlert
  \/ \E p \in PlanIds : OpenPlanDetail(p)
  \/ PlanDetailFetch
  \/ PlanDetailBack
  \/ \E dayOrder \in NewPlanDays \cup WeekDays, text \in DayNameInputs :
        PlanDetailSetDayNames(dayOrder, text)
  \/ PlanDetailSavePlan
  \/ UpdatePlanGetToken
  \/ UpdatePlanName
  \/ \E done \in SUBSET (NewPlanDays \cup WeekDays) : UpdatePlanDays(done)
  \/ UpdatePlanOK
  \/ FieldsNext
  \/ AddToPlanNext
  \/ \E p \in PlanIds : OpenPlan(p)
  \/ fetchPlanDetails
  \/ ViewBack
  \/ ToggleEditMode
  \/ WeekNext

SpecAdd == InitAdd /\ [][NextAdd]_vars

(* ------------------- the week's read-only screens ---------------------- *)
\* the plans list of an account whose one plan has a week saved by the week
\* screen: day 1 "A" with one exercise, day 2 "B" without
InitWeekView ==
  /\ plans = << PlanRow(<<"S">>, TRUE) >>
  /\ rows = daysToSave(1, Put(Put(EmptyMap, 1, <<"A">>), 2, <<"B">>),
                       Put(EmptyMap, 1, << CHOOSE e \in ExerciseInputs : TRUE >>))
  /\ AsyncStorage = StoreInit
  /\ screen = "plans"
  /\ planId = NoPlan
  /\ isEditMode = FALSE
  /\ name = <<>>
  /\ dayNames = EmptyMap
  /\ dayExercises = EmptyMap
  /\ initialDayNames = EmptyMap
  /\ initialDayExercises = EmptyMap
  /\ pending = {}
  /\ addExerciseDay = NoDay
  /\ saving = FALSE
  /\ plan = None
  /\ weeks = {}
  /\ loading = FALSE
  /\ pc = "idle"
  /\ shouldBeCurrent = FALSE
  /\ firstDay = <<>>
  /\ targetDay = NoRow
  /\ alert = NoAlert
  /\ FreshSearch

NextWeekView ==
  \/ DismissAlert
  \/ \E p \in PlanIds : OpenPlan(p)
  \/ fetchPlanDetails
  \/ ViewBack
  \/ ReloadNext

SpecWeekView == InitWeekView /\ [][NextWeekView]_vars

(* ------------- a saved day of two exercises is loaded ------------------ *)
\* the plans list of an account whose one plan has a week saved by the week
\* screen from the draft: day 1 "A" with Bench Press, then Squat
InitOrder ==
  /\ plans = << PlanRow(<<"S">>, TRUE) >>
  /\ rows = daysToSave(1, Put(EmptyMap, 1, <<"A">>),
                       Put(EmptyMap, 1,
                           << CHOOSE e \in DiffExercises : e.id = 1,
                              CHOOSE e \in DiffExercises : e.id = 2 >>))
  /\ AsyncStorage = StoreInit
  /\ screen = "plans"
  /\ planId = NoPlan
  /\ isEditMode = FALSE
  /\ name = <<>>
  /\ dayNames = EmptyMap
  /\ dayExercises = EmptyMap
  /\ initialDayNames = EmptyMap
  /\ initialDayExercises = EmptyMap
  /\ pending = {}
  /\ addExerciseDay = NoDay
  /\ saving = FALSE
  /\ plan = None
  /\ weeks = {}
  /\ loading = FALSE
  /\ pc = "idle"
  /\ shouldBeCurrent = FALSE
  /\ firstDay = <<>>
  /\ targetDay = NoRow
  /\ alert = NoAlert
  /\ FreshSearch

NextOrder ==
  \/ DismissAlert
  \/ \E p \in PlanIds : OpenPlan(p)
  \/ fetchPlanDetails
  \/ ViewBack
  \/ ToggleEditMode
  \/ EditWeek
  \/ loadDayNames
  \/ loadInitialData
  \/ fetchWeekData
  \/ WeekBack
  \/ Discard
  \/ \E p \in PlanIds : OpenPlanDetail(p)
  \/ PlanDetailFetch
  \/ PlanDetailBack
  \/ ReloadNext

SpecOrder == InitOrder /\ [][NextOrder]_vars

(* ------------------- every save comes to an end ------------------------ *)
\* the plans list of an account whose one plan has a week saved by the week
\* screen: day 1 "A" without exercises
InitSaving ==
  /\ plans = << PlanRow(<<"S">>, TRUE) >>
  /\ rows = daysToSave(1, Put(EmptyMap, 1, <<"A">>), EmptyMap)
  /\ AsyncStorage = StoreInit
  /\ screen = "plans"
  /\ planId = NoPlan
  /\ isEditMode = FALSE
  /\ name = <<>>
  /\ dayNames = EmptyMap
  /\ dayExercises = EmptyMap
  /\ initialDayNames = EmptyMap
  /\ initialDayExercises = EmptyMap
  /\ pending = {}
  /\ addExerciseDay = NoDay
  /\ saving = FALSE
  /\ plan = None
  /\ weeks = {}
  /\ loading = FALSE
  /\ pc = "idle"
  /\ shouldBeCurrent = FALSE
  /\ firstDay = <<>>
  /\ targetDay = NoRow
  /\ alert = NoAlert
  /\ FreshSearch

\* the awaits of the three save handlers: each settles
SaveSteps ==
  \/ SavePlanGetToken
  \/ SavePlanSelectCurrent
  \/ SavePlanInsertPlan
  \/ SavePlanInsertRows
  \/ SaveWeekGetToken
  \/ SaveWeekDelete
  \/ SaveWeekInsert
  \/ UpdatePlanGetToken
  \/ UpdatePlanName
  \/ \E done \in SUBSET (NewPlanDays \cup WeekDays) : UpdatePlanDays(done)

NextSaving ==
  \/ DismissAlert
  \/ OpenNewPlan
  \/ \E text \in PlanNameInputs : setName(text)
  \/ handleSavePlan(MaxPlans)
  \/ \E p \in PlanIds : OpenPlan(p)
  \/ fetchPlanDetails
  \/ ViewBack
  \/ ToggleEditMode
  \/ EditWeek
  \/ loadDayNames
  \/ loadInitialData
  \/ fetchWeekData
  \/ \E text \in DayNameInputs : handleDayNameChange(1, text)
  \/ handleSaveWeek
  \/ \E p \in PlanIds : OpenPlanDetail(p)
  \/ PlanDetailFetch
  \/ PlanDetailBack
  \/ PlanDetailSavePlan
  \/ UpdatePlanOK
  \/ SaveSteps

SpecSaving == InitSaving /\ [][NextSaving]_vars /\ WF_vars(SaveSteps)

(* ------------------- two plans and the edit screen --------------------- *)
\* the plans list of an account with two plans saved by the new-plan screen,
\* each with one day of one exercise: day 0 of "S" is "A", day 0 of "T" is "B"
InitRename ==
  /\ plans = << PlanRow(<<"S">>, TRUE), PlanRow(<<"T">>, FALSE) >>
  /\ rows = PlanInserts(1, Put(EmptyMap, 0, <<"A">>),
                        Put(EmptyMap, 0, << CHOOSE e \in ExerciseInputs : TRUE >>))
            \o PlanInserts(2, Put(EmptyMap, 0, <<"B">>),
                           Put(EmptyMap, 0, << CHOOSE e \in ExerciseInputs : TRUE >>))
  /\ AsyncStorage = StoreInit
  /\ screen = "plans"
  /\ planId = NoPlan
  /\ isEditMode = FALSE
  /\ name = <<>>
  /\ dayNames = EmptyMap
  /\ dayExercises = EmptyMap
  /\ initialDayNames = EmptyMap
  /\ initialDayExercises = EmptyMap
  /\ pending = {}
  /\ addExerciseDay = NoDay
  /\ saving = FALSE
  /\ plan = None
  /\ weeks = {}
  /\ loading = FALSE
  /\ pc = "idle"
  /\ shouldBeCurrent = FALSE
  /\ firstDay = <<>>
  /\ targetDay = NoRow
  /\ alert = NoAlert
  /\ FreshSearch

NextRename ==
  \/ DismissAlert
  \/ PlanDetailNext
  \/ fetchPlanDetails
  \/ ViewBack

SpecRename == InitRename /\ [][NextRename]_vars

(* ------------- the loads of an edit session, no mutation --------------- *)
\* entering and leaving the week in edit mode: no step changes a draft
NextLoads ==
  \/ DismissAlert
  \/ fetchPlanDetails
  \/ EditWeek
  \/ loadDayNames
  \/ loadInitialData
  \/ fetchWeekData
  \/ WeekBack
  \/ Discard

SpecLoads == InitEdit /\ [][NextLoads]_vars

(* ============================ properties ============================== *)
\* the days of either authoring screen
AllDays == NewPlanDays \cup WeekDays

\* the current plans
CurrentPlans == { i \in DOMAIN plans : plans[i].is_current }

\* C1: change detection is reflexive: a back press on a week screen whose
\* draft (day names and exercises) equals its initial snapshot finds no
\* pending changes, so the discard prompt is not shown.
C1_Reflexive ==
  [][ ( /\ screen = "week" /\ alert = NoAlert
        /\ dayNames = initialDayNames
        /\ dayExercises = initialDayExercises )
      => alert' # "Discard Changes" ]_vars

\* a week screen whose draft equals its snapshot, with names and exercises
C1_Witness ==
  /\ screen = "week" /\ alert = NoAlert
  /\ dayNames = initialDayNames /\ DOMAIN dayNames # {}
  /\ dayExercises = initialDayExercises
  /\ \E d \in DOMAIN dayExercises : dayExercises[d] # <<>>

\* a is { d: [] } for one day d, and b is {}
EmptyListDay(a, b) ==
  /\ \E d \in WeekDays : DOMAIN a = {d} /\ a[d] = <<>>
  /\ DOMAIN b = {}

C3_BlankNameRejected ==
  [][ ( /\ screen \in {"new", "detail"} /\ pc = "idle"
        /\ Trim(name) = <<>> )
      => /\ pc' = "idle"
         /\ plans' = plans /\ rows' = rows
         /\ (alert = NoAlert /\ alert' # NoAlert /\ screen' = screen)
              => /\ alert' = "Please enter a plan name"
                 /\ UNCHANGED << name, dayNames, dayExercises, AsyncStorage >> ]_vars

\* the rejection shown for a whitespace-only name on a draft that has day
\* names and exercises
C3_Witness ==
  /\ screen = "new" /\ alert = "Please enter a plan name"
  /\ name # <<>> /\ Trim(name) = <<>>
  /\ DOMAIN dayNames # {}
  /\ \E d \in DOMAIN dayExercises : dayExercises[d] # <<>>
  /\ plans = <<>> /\ rows = <<>>

\* a day of the draft has an exercise and an empty or whitespace-only name
UnnamedDayWithExercises ==
  \E d \in DOMAIN dayExercises : Len(dayExercises[d]) > 0 /\ ~HasName(dayNames, d)

\* C4: save rejects when a day with at least one exercise has an empty or
\* whitespace-only name: in every save flow no assignment row is written for
\* such a draft.
C4_UnnamedDayRejected ==
  [][ (screen \in {"new", "week", "detail"} /\ UnnamedDayWithExercises)
      => Len(rows') <= Len(rows) ]_vars

\* C5: after a successful save the Draft Store holds no entry for the saved
\* scope (the new-plan blob, or the plan/week DayNames and Exercises keys),
\* and the blob stays absent until the next mutation of the draft.
C5_StoreClearedBySave ==
  [][ /\ (pc = "sp_insertRows" /\ screen' = "view")
           => AsyncStorage'.newPlanFormData = None
      /\ (pc = "sw_insert" /\ screen' = "view")
           => /\ AsyncStorage'.DayNames[planId] = None
              /\ AsyncStorage'.Exercises[planId] = None
      /\ (AsyncStorage.newPlanFormData = None /\ AsyncStorage'.newPlanFormData # None)
           => /\ screen = "new" /\ screen' = "new"
              /\ << name, dayNames, dayExercises >>' # << name, dayNames, dayExercises >> ]_vars

\* the alerts a failed save shows
SaveFailureAlerts ==
  { "Failed to create workout plan", "Failed to save week configuration" }

\* the delete of handleSaveWeek had rows to delete and deleted none
DeleteFailed ==
  /\ pc = "sw_delete"
  /\ rows' = rows
  /\ RowsAfterDelete(planId) # rows

\* a remote step of a save did not do its work
SaveStepFailed ==
  \/ /\ pc \in {"sp_getToken", "sp_selectCurrent", "sp_insertPlan", "sp_insertRows",
                "sw_getToken", "sw_insert"}
     /\ screen' # "view"
     /\ pc' \notin {"sp_selectCurrent", "sp_insertPlan", "sp_insertRows", "sw_delete"}
  \/ DeleteFailed

\* C6: when any remote step of a save fails, the save shows an error alert,
\* stays on the screen and leaves the draft and the Draft Store as they were
\* before the save, so the same draft can be saved again.
C6_FailedSaveKeepsDraft ==
  [][ SaveStepFailed
      => /\ alert' \in SaveFailureAlerts
         /\ pc' = "idle" /\ ~saving'
         /\ screen' = screen
         /\ UNCHANGED << name, dayNames, dayExercises, AsyncStorage >> ]_vars

\* C7: the steps of a save run in order and a failed step aborts the save:
\* after a failed delete of the week's rows the bulk insert is not issued,
\* and after a failed insert of the plan row no assignment row is inserted.
C7_FailedStepAborts ==
  [][ /\ DeleteFailed => (pc' # "sw_insert" /\ rows' = rows)
      /\ (pc = "sp_insertPlan" /\ plans' = plans)
           => (pc' # "sp_insertRows" /\ rows' = rows) ]_vars

\* the rows a step appended to the table
Inserted == SubSeq(rows', Len(rows) + 1, Len(rows'))

\* C8: a successful save inserts exactly one assignment row with null
\* exercise fields for each named day without exercises, exactly one row for
\* each (day, exercise) pair of the draft, and no other row.
C8_ExactInserts ==
  [][ (pc \in {"sp_insertRows", "sw_insert"} /\ screen' = "view")
      => \A d \in AllDays :
           /\ Cardinality({ i \in DOMAIN Inserted :
                              Inserted[i].day_order = d /\ Inserted[i].exercise_id = NULL })
                = (IF HasName(dayNames, d) /\ ~HasExercises(dayExercises, d) THEN 1 ELSE 0)
           /\ Cardinality({ i \in DOMAIN Inserted :
                              Inserted[i].day_order = d /\ Inserted[i].exercise_id # NULL })
                = Len(ListAt(dayExercises, d)) ]_vars

\* C9: in every reachable state, over any sequence of new-plan saves and
\* changes of the current plan (failing remote calls included), at most one
\* plan has is_current = true.
C9_AtMostOneCurrent == Cardinality(CurrentPlans) <= 1

\* C10: when a plan is marked current while another plan is current, after
\* the operation finishes (without reporting an error) exactly one plan has
\* is_current = true, and it is the marked plan.
C10_MarkedPlanIsCurrent ==
  [][ ( /\ pc \in {"cp_clearPlans", "cp_setCurrent", "cp_firstDay", "cp_clearDays",
                   "cp_target", "cp_setDay", "cp_verify",
                   "dc_clearPlans", "dc_clearDays", "dc_setCurrent", "dc_firstDay",
                   "dc_setDays"}
        /\ pc' = "idle" )
      => { i \in DOMAIN plans' : plans'[i].is_current } = {planId} ]_vars

\* the search has settled: no timeout is pending and no search is in flight
SearchSettled == debounceTimeout = None /\ searching = {}

\* C11: an empty or whitespace-only search query yields an empty result list
\* and issues no remote call (the timeout that fires for such a query starts
\* no search and empties the list), and once the query is empty or
\* whitespace-only and the search has settled the displayed list is empty.
C11_EmptyQueryEmptyResults ==
  /\ [][ ( /\ debounceTimeout # None /\ debounceTimeout' = None
           /\ Trim(debounceTimeout[1]) = <<>> )
         => (foundExercises' = <<>> /\ searching' = searching) ]_vars
  /\ []((Trim(searchQuery) = <<>> /\ SearchSettled) => foundExercises = <<>>)

\* C12: only the most recent query's results are applied: the response of a
\* search whose query is not the current query never replaces the displayed
\* results.
C12_OnlyLatestApplied ==
  [][ \A r \in searching :
        (r.pc = "select" /\ r \notin searching' /\ r.query # searchQuery)
          => foundExercises' = foundExercises ]_vars

\* text contains query as a substring, without regard to case
Contains(text, query) ==
  \E i \in 0 .. (Len(text) - Len(query)) :
     \A j \in 1 .. Len(query) : LowerCase(text[i + j]) = LowerCase(query[j])

\* the first SearchLimit exercises of the catalog, in its order of names,
\* whose name contains query
ExpectedResults(query) ==
  LET Matches(e) == Contains(e.name, query)
      data == SelectSeq(Catalog, Matches)
  IN  SubSeq(data, 1, IF Len(data) < SearchLimit THEN Len(data) ELSE SearchLimit)

\* C13: for a non-empty query q the result a search applies is the
\* alphabetically ordered list of at most the limit of catalog exercises
\* whose name contains q as a case-insensitive substring, and nothing else.
C13_SubstringResults ==
  [][ \A r \in searching :
        (r.pc = "select" /\ r \notin searching' /\ foundExercises' # foundExercises)
          => foundExercises' = ExpectedResults(r.query) ]_vars

\* C14: discard restores the Draft Store entry of the plan/week to the
\* initial snapshot in edit mode and removes the entry in create mode (of a
\* week: both keys; of the new-plan form: the blob), and in both modes leaves
\* every persisted plan and assignment row unchanged.
C14_DiscardRestoresOrRemoves ==
  [][ /\ (screen = "week" /\ alert = "Discard Changes" /\ screen' = "view")
           => /\ plans' = plans /\ rows' = rows
              /\ IF isEditMode
                 THEN /\ AsyncStorage'.DayNames[planId] = Some(JSONstringify(initialDayNames))
                      /\ AsyncStorage'.Exercises[planId] = Some(JSONstringify(initialDayExercises))
                 ELSE /\ AsyncStorage'.DayNames[planId] = None
                      /\ AsyncStorage'.Exercises[planId] = None
      /\ (screen = "new" /\ screen' = "plans")
           => /\ plans' = plans /\ rows' = rows
              /\ AsyncStorage'.newPlanFormData = None ]_vars

\* the week screen has finished loading
WeekLoaded == screen = "week" /\ pending = {} /\ ~loading /\ alert = NoAlert

\* C15: when the Draft Store has no entry for the plan/week and an edit
\* session is opened, after loading finishes both the working draft and the
\* initial snapshot equal the persisted assignments of the plan/week, and a
\* change of a day name leaves the snapshot as it is.
C15_EditSeedsDraftAndSnapshot ==
  /\ []( ( /\ WeekLoaded /\ isEditMode
           /\ AsyncStorage.DayNames[planId] = None
           /\ AsyncStorage.Exercises[planId] = None )
         => /\ dayNames = NamesOfRows(WeekRows(planId))
            /\ dayExercises = ExercisesOfRows(WeekRows(planId))
            /\ initialDayNames = NamesOfRows(WeekRows(planId))
            /\ initialDayExercises = ExercisesOfRows(WeekRows(planId)) )
  /\ [][ (WeekLoaded /\ screen' = "week" /\ dayNames' # dayNames)
         => UNCHANGED << initialDayNames, initialDayExercises >> ]_vars

\* C16: after a successful save the initial snapshot equals the just-saved
\* draft, so change detection reports no pending changes until the next
\* mutation: on a loaded week screen whose week has been saved, with no
\* mutation since, a back press does not show the discard prompt.
C16_SavedDraftHasNoChanges ==
  [][ (WeekLoaded /\ rows # <<>>) => alert' # "Discard Changes" ]_vars

\* C17: every draft mutation takes effect in the in-memory draft even when
\* the write to the Draft Store fails, and when the write succeeds the Draft
\* Store entry equals the in-memory draft after the mutation: a change of a
\* day name or of the new-plan form leaves the store as it was or equal to
\* the new draft, and an exercise whose sets, reps and rest passed the checks
\* is never lost (adding it changes the draft or the store).
C17_MutationSurvivesFailedWrite ==
  [][ /\ (WeekLoaded /\ screen' = "week" /\ dayNames' # dayNames)
           => \/ AsyncStorage' = AsyncStorage
              \/ AsyncStorage'.DayNames[planId] = Some(JSONstringify(dayNames'))
      /\ ( /\ screen = "new" /\ screen' = "new"
           /\ << name, dayNames, dayExercises >>' # << name, dayNames, dayExercises >> )
           => \/ AsyncStorage' = AsyncStorage
              \/ AsyncStorage'.newPlanFormData = Some(FormBlob(name', dayExercises', dayNames'))
      /\ ( /\ screen = "add" /\ alert = NoAlert
           /\ (alert' = "Failed to save exercise data" \/ AsyncStorage' # AsyncStorage) )
           => ~(UNCHANGED << dayExercises, AsyncStorage >>) ]_vars

\* the form loadSavedData restores from the store
ReloadedForm ==
  LET savedData == AsyncStorage.newPlanFormData
  IN  IF savedData # None
      THEN << savedData[1].name, JSONparse(savedData[1].dayExercises),
              JSONparse(savedData[1].dayNames) >>
      ELSE << <<>>, EmptyMap, EmptyMap >>

\* the day names loadDayNames restores from the store
ReloadedNames ==
  LET savedNames == AsyncStorage.DayNames[planId]
  IN  IF savedNames # None THEN JSONparse(savedNames[1]) ELSE EmptyMap

\* the exercises fetchWeekData restores: the store's, else the remote week's
ReloadedExercises ==
  LET savedExercisesStr == AsyncStorage.Exercises[planId]
  IN  IF savedExercisesStr # None THEN JSONparse(savedExercisesStr[1])
      ELSE ExercisesOfRows(WeekRows(planId))

\* C18: in-progress work survives navigation and restart: after any sequence
\* of setName, setDayName and addExercise with no save and no discard, what
\* loading the draft again yields equals the in-memory draft (a name cleared
\* back to empty included).
C18_DraftSurvivesReload ==
  /\ (screen = "new" /\ pc = "idle")
       => ReloadedForm = << name, dayExercises, dayNames >>
  /\ WeekLoaded
       => (ReloadedNames = dayNames /\ ReloadedExercises = dayExercises)

\* the text is a decimal numeral: digits only, at least one
IsNumeral(text) == text # <<>> /\ \A i \in DOMAIN text : IsDigit(text[i])

\* the form holds numeric, positive sets and reps and a numeric, non-negative rest
FieldsValid ==
  /\ IsNumeral(sets) /\ DecimalValue(sets) >= 1
  /\ IsNumeral(reps) /\ DecimalValue(reps) >= 1
  /\ IsNumeral(restSeconds)

\* every persisted row with an exercise has sets >= 1, reps >= 1, rest >= 0
ExerciseRowsValid ==
  \A i \in DOMAIN rows :
    rows[i].exercise_id # NULL
      => (rows[i].sets >= 1 /\ rows[i].reps >= 1 /\ rows[i].rest_seconds >= 0)

\* C19: every assignment row with an exercise that the client writes has
\* sets >= 1, reps >= 1 and rest_seconds >= 0 (drafts seeded from remote rows
\* included), and an add-exercise form with non-numeric or non-positive sets
\* or reps, or negative rest, starts no remote call and writes nothing to the
\* Draft Store.
C19_ValidAssignments ==
  /\ []ExerciseRowsValid
  /\ [][ (screen \in {"add", "addToPlan"} /\ Idle /\ ~FieldsValid)
           => /\ AsyncStorage' = AsyncStorage
              /\ rows' = rows
              /\ pc' = "idle"
              /\ alert' # "Failed to save exercise data" ]_vars

\* the rows i and j belong to the same day of the same week of the same plan
SameDay(i, j) ==
  /\ rows[i].plan_id = rows[j].plan_id
  /\ rows[i].week_number = rows[j].week_number
  /\ rows[i].day_order = rows[j].day_order

\* C20: in every reachable state, all persisted assignment rows of one plan
\* (and week) that share a day_order carry the same day_name.
C20_OneNamePerDay ==
  \A i, j \in DOMAIN rows : SameDay(i, j) => rows[i].day_name = rows[j].day_name

\* the days (week, day_order) of plan p that carry the current-day marker
MarkedDays(p) ==
  { << rows[i].week_number, rows[i].day_order >> : i \in { j \in RowsOf(p) : rows[j].is_current } }

\* C21: at most one day of the current plan carries the current-day marker
\* after change-to-this-plan completes (the step that ends handleChangePlan
\* of either screen leaves at most one marked day in the plan it was run on).
C21_OneCurrentDay ==
  [][ (pc # "idle" /\ pc' = "idle" /\ screen \in {"view", "day"})
        => Cardinality(MarkedDays(planId)') <= 1 ]_vars

\* the names of the catalog are pairwise different
UniqueNames ==
  \A i, j \in DOMAIN catalog : catalog[i].name = catalog[j].name => i = j

\* C22: exercise names stay globally unique: creating an exercise whose name
\* already exists ends with an error shown, the catalog unchanged and the
\* form still on screen; an empty or whitespace-only name is refused with an
\* error before any remote call.
C22_UniqueExerciseNames ==
  /\ []UniqueNames
  /\ [][ /\ ( /\ pc = "ne_insert"
              /\ \E i \in DOMAIN catalog : catalog[i].name = Trim(exerciseName) )
              => (error' # None /\ catalog' = catalog /\ screen' = "newExercise")
         /\ (screen = "newExercise" /\ Idle /\ Trim(exerciseName) = <<>>)
              => (pc' = "idle" /\ catalog' = catalog) ]_vars

\* the insert of a name that exists has just been refused
C22_Witness ==
  /\ screen = "newExercise" /\ pc = "idle"
  /\ error = Some("An exercise with this name already exists")
  /\ Len(catalog) > Len(Catalog)
  /\ \E i \in DOMAIN catalog : catalog[i].name = Trim(exerciseName)

\* the loads of screen `of` that have not returned
InFlight(of) == { r \in reloads : r.of = of }

\* C23: a load whose focus effect was cleaned up writes neither the loaded
\* list nor the ready flag of its screen when it advances, and each of the two
\* screens has at most one load in flight
C23_NoStaleReload ==
  /\ [][ \A r \in reloads :
           (~r.isMounted /\ r \notin reloads' /\ screen' = screen)
             => /\ r.of = "weekView" => (weekDays' = weekDays /\ weekReady' = weekReady)
                /\ r.of = "weekDay"
                     => (dayViewExercises' = dayViewExercises /\ dayReady' = dayReady) ]_vars
  /\ [](Cardinality(InFlight("weekView")) <= 1)
  /\ [](Cardinality(InFlight("weekDay")) <= 1)

\* C24: in edit mode, a fetch of the week's persisted rows that fails is
\* reported by an alert, in the working-draft fetch (which leaves the draft
\* empty) and in the initial-snapshot fetch
C24_FailedLoadReported ==
  [][ /\ ( /\ screen = "week" /\ screen' = "week" /\ isEditMode
           /\ loading /\ ~loading'
           /\ AsyncStorage.Exercises[planId] = None
           /\ \A data \in WeekRowOrders(planId) : dayExercises' # ExercisesOfRows(data) )
           => (alert' # NoAlert /\ dayExercises' = EmptyMap)
      /\ ( /\ screen = "week" /\ screen' = "week" /\ isEditMode
           /\ "loadInitialData" \in pending /\ "loadInitialData" \notin pending'
           /\ \A daysData \in WeekRowOrders(planId) :
                 initialDayNames' # NamesOfRows(daysData) )
           => alert' # NoAlert ]_vars

C26_CreationOrder ==
  [][ /\ ( /\ screen = "week" /\ screen' = "week" /\ loading /\ ~loading'
           /\ AsyncStorage.Exercises[planId] = None /\ alert' = NoAlert )
           => dayExercises' = ExercisesOfRows(WeekRows(planId))
      /\ ( /\ screen = "detail" /\ screen' = "detail" /\ loading /\ ~loading' )
           => dayExercises' = GroupByDay(PlanRows(planId))
      /\ ( /\ screen = "weekDay" /\ screen' = "weekDay"
           /\ dayViewExercises' # dayViewExercises )
           => dayViewExercises' = filteredExercises(planId, viewDayName) ]_vars

\* C27: every save attempt ends with saving false: once a save handler has
\* set saving, saving becomes false again, whether the save succeeds or one
\* of its calls fails; saving is set only while a handler runs
C27_SavingTerminates ==
  /\ saving ~> ~saving
  /\ [](saving => pc # "idle")

\* a save of the week has failed at its insert and saving is false again
C27_Witness ==
  /\ screen = "week" /\ pc = "idle" /\ ~saving
  /\ alert = "Failed to save week configuration"

\* the fields of an assignment row a save writes
RowFields(r) ==
  << r.day_order, r.day_name, r.exercise_id, r.sets, r.reps, r.rest_seconds >>

\* the rows of a sequence by their fields, each with the number of its copies
FieldsBag(rs) ==
  [ t \in { RowFields(rs[i]) : i \in DOMAIN rs } |->
      Cardinality({ i \in DOMAIN rs : RowFields(rs[i]) = t }) ]

\* C28: a saved week opened in edit mode and saved again without a mutation
\* keeps its persisted rows: what the save deletes is what the draft holds,
\* and after the save the week's rows are the draft's rows
C28_ResaveKeepsRows ==
  /\ []( (screen = "week" /\ isEditMode /\ pc = "sw_delete")
           => FieldsBag(WeekRows(planId))
                = FieldsBag(daysToSave(planId, dayNames, dayExercises)) )
  /\ [][ (screen = "week" /\ isEditMode /\ pc = "sw_insert" /\ screen' = "view")
           => FieldsBag(WeekRows(planId)')
                = FieldsBag(daysToSave(planId, dayNames, dayExercises)) ]_vars

\* C29: the save of the edit screen of a plan changes rows of that plan
\* only: while handleSavePlan of PlanDetailScreen runs, every row of another
\* plan keeps its fields, and no row is added or removed
C29_OtherPlansUntouched ==
  [][ (screen = "detail" /\ pc \in {"ep_getToken", "ep_updatePlan", "ep_updateDays"})
        => /\ DOMAIN rows' = DOMAIN rows
           /\ \A i \in DOMAIN rows :
                rows[i].plan_id # planId => rows'[i] = rows[i] ]_vars

\* the snapshot when loadInitialData settles last: the remote week's names
\* and exercises if its select succeeded, else what the two other loads set
\* from the store
SnapshotNames(selected) ==
  IF selected THEN NamesOfRows(WeekRows(planId)) ELSE ReloadedNames

SnapshotExercises(selected) ==
  LET savedExercisesStr == AsyncStorage.Exercises[planId]
  IN  IF selected THEN ExercisesOfRows(WeekRows(planId))
      ELSE IF savedExercisesStr # None THEN JSONparse(savedExercisesStr[1])
      ELSE EmptyMap

\* C30: on entering a week in edit mode the snapshot does not depend on the
\* order in which the three loads settle: once they have, it is what it is
\* when loadInitialData settles last, and change detection answers that
\* nothing has changed
C30_SnapshotOrderIndependent ==
  (WeekLoaded /\ isEditMode)
    => /\ \E selected \in BOOLEAN :
            /\ initialDayNames = SnapshotNames(selected)
            /\ initialDayExercises = SnapshotExercises(selected)
       /\ ~hasChanges(dayNames, initialDayNames, dayExercises, initialDayExercises)

====
